---- MODULE Spec2Model ----
(***************************************************************************)
(* A model of the slow nonlinear Fourier transform of FNFT                 *)
(* (src/src/fnft_nsev_slow.c): the entry point fnft_nsev_slow with its     *)
(* Richardson extrapolation step, the pipeline fnft_nsev_slow_base, the    *)
(* Newton refinement refine_roots_newton, compute_normconsts_or_residues   *)
(* and the resampler signal_effective_from_signal.                         *)
(*                                                                         *)
(* REAL values are exact rationals <<n, d>> (d > 0, lowest terms); a       *)
(* non-finite value (inf or NaN) is <<0, 0>>.  COMPLEX values are pairs    *)
(* <<re, im>> of such rationals.                                           *)
(***************************************************************************)
EXTENDS Integers, Sequences, FiniteSets, TLC

\* ------------------------------------------------------------------------
\* REAL arithmetic
\* ------------------------------------------------------------------------
Abs(n) == IF n < 0 THEN -n ELSE n

RECURSIVE Gcd(_, _)
Gcd(a, b) == IF b = 0 THEN a ELSE Gcd(b, a % b)

RNaN == <<0, 0>>

Reduce(n, d, g) == <<n \div g, d \div g>>

\* n/d in lowest terms, for d >= 0
RNorm(n, d) == IF d = 0 THEN RNaN ELSE Reduce(n, d, Gcd(d, n % d))

R(n) == <<n, 1>>

RFinite(x) == x[2] # 0

RNeg(x) == <<-x[1], x[2]>>

RAdd(x, y) == RNorm(x[1] * y[2] + y[1] * x[2], x[2] * y[2])

RSub(x, y) == RNorm(x[1] * y[2] - y[1] * x[2], x[2] * y[2])

RMul(x, y) == RNorm(x[1] * y[1], x[2] * y[2])

\* x / y; a division by zero yields a non-finite value
RDiv(x, y) == IF y[1] < 0 THEN RNorm(-x[1] * y[2], -x[2] * y[1])
              ELSE RNorm(x[1] * y[2], x[2] * y[1])

\* x < y, false when either side is not finite (as for NaN)
RLess(x, y) == x[2] # 0 /\ y[2] # 0 /\ x[1] * y[2] < y[1] * x[2]

RAbs(x) == <<Abs(x[1]), x[2]>>

RECURSIVE RPow(_, _)
RPow(x, n) == IF n = 0 THEN R(1) ELSE RMul(x, RPow(x, n - 1))

\* ------------------------------------------------------------------------
\* COMPLEX arithmetic
\* ------------------------------------------------------------------------
C(re, im) == <<<<re, 1>>, <<im, 1>>>>

CNaN == <<RNaN, RNaN>>

CFinite(z) == z[1][2] # 0 /\ z[2][2] # 0

CReal(x) == <<x, <<0, 1>>>>

\* a value with a non-finite part is non-finite as a whole
CNum(re, im) == IF re[2] = 0 \/ im[2] = 0 THEN CNaN ELSE <<re, im>>

CAdd(z, w) == CNum(RAdd(z[1], w[1]), RAdd(z[2], w[2]))

CSub(z, w) == CNum(RSub(z[1], w[1]), RSub(z[2], w[2]))

CMul(z, w) == CNum(RSub(RMul(z[1], w[1]), RMul(z[2], w[2])),
                   RAdd(RMul(z[1], w[2]), RMul(z[2], w[1])))

CConj(z) == <<z[1], <<-z[2][1], z[2][2]>>>>

\* |z|^2
CAbs2(z) == RAdd(RMul(z[1], z[1]), RMul(z[2], z[2]))

CIsZero(z) == CFinite(z) /\ z[1][1] = 0 /\ z[2][1] = 0

\* real scalar times complex
CScale(x, z) == CNum(RMul(x, z[1]), RMul(x, z[2]))

\* complex divided by a real scalar
CDivR(z, x) == CNum(RDiv(z[1], x), RDiv(z[2], x))

\* z / w for w = g*(p + I q)/l with coprime integers p and q:
\* z * (p - I q) * l/(g*(p^2 + q^2))
CDivPQ(z, p, q, l, g) == CScale(RNorm(l, g * (p * p + q * q)), CMul(z, <<<<p, 1>>, <<-q, 1>>>>))

CDivG(z, p, q, l, g) == CDivPQ(z, p \div g, q \div g, l, g)

CDivL(z, w, l) ==
    CDivG(z, w[1][1] * (l \div w[1][2]), w[2][1] * (l \div w[2][2]), l,
          Gcd(Abs(w[1][1] * (l \div w[1][2])), Abs(w[2][1] * (l \div w[2][2]))))

\* z / w; non-finite when w is exactly zero
CDiv(z, w) ==
    IF ~CFinite(w) \/ CIsZero(w) THEN CNaN
    ELSE CDivL(z, w, (w[1][2] * w[2][2]) \div Gcd(w[1][2], w[2][2]))

\* CEXP(I*x) for real x, by the Cayley (1,1) Pade approximant
\* (2 + I x)/(2 - I x), which has modulus one exactly.
CExpI(x) == CDiv(<<<<2, 1>>, x>>, <<<<2, 1>>, RNeg(x)>>)

\* 0.9*PI/2, with PI taken as 355/113
NinePiOver20 == RNorm(9 * 355, 20 * 113)

\* ROUND((REAL)a / b) for positive integers: half rounds away from zero
RoundDiv(a, b) == (2 * a + b) \div (2 * b)

\* a function over 0..n-1 (a C array of n elements)
Arr(n, v) == [k \in 0 .. n - 1 |-> v]

\* the C array with the elements of a sequence
ArrOf(seq) == [k \in 0 .. Len(seq) - 1 |-> seq[k + 1]]

\* ------------------------------------------------------------------------
\* Discretization descriptor (fnft__nse_discretization.c: D_scale and
\* method_order, 0 for an unknown discretization; boundary_coeff)
\* ------------------------------------------------------------------------
nse_discretization_D_scale(discretization) ==
    CASE discretization = "BO" -> 1
      [] discretization = "ES4" -> 3
      [] OTHER -> 0

nse_discretization_method_order(discretization) ==
    CASE discretization = "BO" -> 2
      [] discretization = "ES4" -> 4
      [] OTHER -> 0

nse_discretization_boundary_coeff(discretization) ==
    CASE discretization = "BO" -> <<1, 2>>
      [] discretization = "ES4" -> <<1, 2>>
      [] OTHER -> RNaN

\* ------------------------------------------------------------------------
\* signal_effective_from_signal (fnft_nsev_slow.c lines 692-936)
\* ------------------------------------------------------------------------
\* actual Dsub and stride for a desired Dsub (lines 728-735)
ClampDsub(D, Dsub) ==
    LET atleast2 == IF Dsub < 2 THEN 2 ELSE Dsub
    IN  IF atleast2 > D THEN D ELSE atleast2

\* the stride with the quotient truncated instead of rounded
nskip_truncated(D, Dsub) == D \div ClampDsub(D, Dsub)

nskip_per_step(D, Dsub) == RoundDiv(D, ClampDsub(D, Dsub))

ActualDsub(D, Dsub) == RoundDiv(D, nskip_per_step(D, Dsub))

\* q[i] as the loops read it: an index outside 0..D-1 reads memory that is not
\* part of the array, whose content (g) is indeterminate
ReadQ(D, q, i, g) == IF i \in 0 .. D - 1 THEN q[i] ELSE g

\* the first Dsub samples of q, whatever the stride
EffectiveBOContiguous(D, q, Dsub, nskip, g) ==
    [isub \in 0 .. Dsub - 1 |-> ReadQ(D, q, isub, g)]

\* the BO samples (lines 756-763)
EffectiveBO(D, q, Dsub, nskip, g) ==
    [isub \in 0 .. Dsub - 1 |-> ReadQ(D, q, isub * nskip, g)]

\* the ES4/TES4 samples (lines 886-909): value nodes at 3m, first and second
\* derivative nodes at 3m+1 and 3m+2.  V(m) is q_effective[3m] as the stencils
\* read it; 3m outside 0..D_effective-1 is outside the buffer.
EffectiveES4(D, q, Dsub, nskip, eps_t, g) ==
    LET V(m) == IF m \in 0 .. Dsub - 1 THEN ReadQ(D, q, m * nskip, g) ELSE g
        d1(x, y, h) == CDivR(CSub(x, y), RMul(eps_t, R(h * nskip)))
        d2(x, y, z) == CDivR(CAdd(CSub(x, CScale(R(2), y)), z),
                             RMul(RMul(eps_t, eps_t), R(nskip * nskip)))
        node(k, m) ==
            IF k % 3 = 0 THEN V(m)
            ELSE IF k = 3 * Dsub - 2 THEN d1(V(Dsub - 1), V(Dsub - 2), 1)
            ELSE IF k = 3 * Dsub - 1 THEN d2(V(Dsub - 1), V(Dsub - 2), V(Dsub - 3))
            ELSE IF k = 1 THEN d1(V(1), V(0), 1)
            ELSE IF k = 2 THEN d2(V(2), V(1), V(0))
            ELSE IF k % 3 = 1 THEN d1(V(m + 1), V(m - 1), 2)
            ELSE d2(V(m + 1), V(m), V(m - 1))
    IN  [k \in 0 .. 3 * Dsub - 1 |-> node(k, k \div 3)]

\* what the routine hands back when it fails: the outputs are not assigned
\* (lines 709-748, 915-918)
ResampleFailed(code, bufs) ==
    [ret_code |-> code, out |-> FALSE, Dsub |-> 0, nskip |-> 0,
     q_effective |-> <<>>, r_effective |-> <<>>, first_last_index |-> <<0, 0>>,
     bufs |-> bufs]

\* lines 911-913 (and 760) and lines 921-926
ResampleDone(Dsub, nskip, kappa, qe) ==
    [ret_code |-> "SUCCESS", out |-> TRUE, Dsub |-> Dsub, nskip |-> nskip,
     q_effective |-> qe,
     r_effective |-> [k \in DOMAIN qe |-> CScale(R(-kappa), CConj(qe[k]))],
     first_last_index |-> <<0, (Dsub - 1) * nskip>>,
     bufs |-> {"q_effective", "r_effective"}]

\* The whole routine.  okq/okr: whether the two mallocs succeed; g: the
\* content of memory outside the arrays.  bufs are the buffers it leaves
\* allocated, and out says whether the output pointers were assigned.
signal_effective_from_signal(D, q, eps_t, kappa, Dsub_req, discretization, okq, okr, g) ==
    IF D < 2 \/ ~RLess(R(0), eps_t) \/ Abs(kappa) # 1
    THEN ResampleFailed("E_INVALID_ARGUMENT", {})
    ELSE IF nse_discretization_D_scale(discretization) = 0
    THEN ResampleFailed("E_INVALID_ARGUMENT", {})
    ELSE IF ~(okq /\ okr)
    THEN ResampleFailed("E_NOMEM", (IF okq THEN {"q_effective"} ELSE {})
                                   \cup (IF okr THEN {"r_effective"} ELSE {}))
    ELSE ResampleDone(ActualDsub(D, Dsub_req), nskip_per_step(D, Dsub_req), kappa,
                      IF discretization = "BO"
                      THEN EffectiveBO(D, q, ActualDsub(D, Dsub_req),
                                       nskip_per_step(D, Dsub_req), g)
                      ELSE EffectiveES4(D, q, ActualDsub(D, Dsub_req),
                                        nskip_per_step(D, Dsub_req), eps_t, g))

\* ------------------------------------------------------------------------
\* Collaborators whose code is outside this file: misc_l2norm2, misc_filter,
\* misc_merge, nse_scatter_bound_states, nse_scatter_matrix.  The scattering
\* data of a signal are a deterministic function of the signal, the number
\* of samples and the spectral parameter.
\* ------------------------------------------------------------------------
RECURSIVE SumAbs2(_, _)
SumAbs2(Z, n) == IF n = 0 THEN R(0) ELSE RAdd(CAbs2(Z[n - 1]), SumAbs2(Z, n - 1))

\* squared L2 norm of N samples Z over [a, b]
misc_l2norm2(N, Z, a, b) == RMul(SumAbs2(Z, N), RDiv(RSub(b, a), R(N)))

\* bounding_box = <<re_lo, re_hi, im_lo, im_hi>>, a non-finite entry is +-INFINITY
InBox(z, bounding_box) ==
    /\ ~RLess(z[1], bounding_box[1])
    /\ ~RLess(bounding_box[2], z[1])
    /\ ~RLess(z[2], bounding_box[3])
    /\ ~RLess(bounding_box[4], z[2])

\* indices (ascending) below K at which keep holds
RECURSIVE KeptIdx(_, _)
KeptIdx(K, keep) ==
    IF K = 0 THEN <<>>
    ELSE LET rest == KeptIdx(K - 1, keep)
         IN  IF keep[K - 1] THEN Append(rest, K - 1) ELSE rest

\* in-place compaction: the survivors move to the front, the rest of the
\* array keeps what it held
Compact(vals, idx) ==
    [k \in DOMAIN vals |-> IF k < Len(idx) THEN vals[idx[k + 1]] ELSE vals[k]]

\* the survivors idx of vals, compacted
Kept(vals, idx) == [K |-> Len(idx), vals |-> Compact(vals, idx)]

\* misc_filter(&K, vals, NULL, bounding_box)
misc_filter(K, vals, bounding_box) ==
    Kept(vals, KeptIdx(K, [k \in 0 .. K - 1 |-> InBox(vals[k], bounding_box)]))

\* |z - w| < SQRT(EPSILON): SQRT(EPSILON)^2 = 2^-52 is below every nonzero
\* squared distance of the values of this model
CloserThanSqrtEps(z, w) == CIsZero(CSub(z, w))

\* misc_merge(&K, vals, SQRT(EPSILON)): of values closer than the tolerance
\* the first one stays
misc_merge(K, vals) ==
    Kept(vals, KeptIdx(K, [k \in 0 .. K - 1 |->
                             \A j \in 0 .. k - 1 : ~CloserThanSqrtEps(vals[k], vals[j])]))

\* The signals of the model: amp gives the samples; roots are the zeros of
\* a(lambda) at the given resolution and at coarser ones (roots_sub); crit
\* are the points where a'(lambda) is exactly zero; s11zero is the real xi
\* where S11 is exactly zero.
Signals ==
    { [amp |-> 1, roots |-> <<C(0, 2)>>, roots_sub |-> <<C(0, 3)>>, crit |-> {}, s11zero |-> 5],
      [amp |-> 2, roots |-> <<C(0, 2), C(0, 3)>>, roots_sub |-> <<C(0, 3)>>, crit |-> {C(0, 0), C(0, 2)}, s11zero |-> 1],
      [amp |-> 2, roots |-> <<C(0, 1), C(2, 1)>>, roots_sub |-> <<C(0, 1), C(0, -1)>>, crit |-> {C(1, 1)}, s11zero |-> 5] }

QSample(sig, k) == C(sig.amp, k)

Signal(sig, D) == [k \in 0 .. D - 1 |-> QSample(sig, k)]

RootsAt(sig, D_orig, Dn) == IF Dn >= D_orig THEN sig.roots ELSE sig.roots_sub

\* the root nearest to lam, the first one on ties
Nearer(lam, r, best) == IF RLess(CAbs2(CSub(lam, r)), CAbs2(CSub(lam, best))) THEN r ELSE best

RECURSIVE NearestRoot(_, _, _)
NearestRoot(lam, roots, n) ==
    IF n = 1 THEN roots[1] ELSE Nearer(lam, roots[n], NearestRoot(lam, roots, n - 1))

\* a(lam)/a'(lam): one unit toward the nearest root in each coordinate, or
\* the whole remaining distance d when that is shorter
Unit(d) == IF RLess(R(1), RAbs(d)) THEN (IF RLess(R(0), d) THEN R(1) ELSE R(-1)) ELSE d

StepToward(lam, r) == CNum(Unit(RSub(lam[1], r[1])), Unit(RSub(lam[2], r[2])))

NewtonQuotient(sig, D_orig, Dn, lam) ==
    StepToward(lam, NearestRoot(lam, RootsAt(sig, D_orig, Dn), Len(RootsAt(sig, D_orig, Dn))))

aprime_of(sig, D_orig, Dn, lam) ==
    IF lam \in sig.crit \/ ~CFinite(lam) THEN C(0, 0)
    ELSE C(1 + ((Abs(lam[1][1]) + Abs(lam[2][1]) + Dn) % 2), 0)

a_of(sig, D_orig, Dn, lam) ==
    CMul(aprime_of(sig, D_orig, Dn, lam), NewtonQuotient(sig, D_orig, Dn, lam))

b_of(sig, D_orig, Dn, lam) == CAdd(lam, C(Dn + 3, 0))

\* S11 and S21 at real xi
S11_of(sig, Dn, xi) == CReal(RMul(RSub(xi, R(sig.s11zero)), R(Dn)))

S21_of(sig, Dn, xi) == <<R(1), RAdd(xi, R(Dn))>>

\* ------------------------------------------------------------------------
\* State
\* ------------------------------------------------------------------------
VARIABLES
    pc,                      \* position in fnft_nsev_slow / fnft_nsev_slow_base
    args,                    \* the arguments of the call
    opts,                    \* the caller's options record (unused when opts = NULL)
    default_opts,            \* the static default_opts
    live,                    \* buffers allocated and not yet freed
    allocated,               \* buffers ever allocated during the call
    q_effective,             \* [ptr, val]: the pointer of fnft_nsev_slow and what it points to
    r_effective,
    Dsub,
    first_last_index,
    contspec,                \* [full |-> caller's contspec, sub |-> contspec_sub]
    bound_states,            \* [full |-> caller's bound_states, sub |-> bound_states_sub]
    K_ptr,                   \* [full |-> *K_ptr, sub |-> K_sub]
    normconsts_or_residues,  \* [full |-> caller's buffer, sub |-> ..._sub, reserve |-> ..._reserve]
    reserve_ptr,             \* "caller" while ..._reserve aliases the caller's buffer, "heap", "NULL"
    sub_ptrs,                \* which of contspec_sub, bound_states_sub, ..._sub are non-NULL
    ds_type_opt,
    bs_loc_opt,
    ret_code,
    call,                    \* arguments of the running fnft_nsev_slow_base
    base,                    \* its locals
    hist,                    \* history: what was written, what each run used and produced,
                             \* the last Newton update, the scattering evaluations of each run,
                             \* the sub-sample count asked of signal_effective_from_signal
    scatter,                 \* a direct call of nse_scatter_matrix: arguments, locals, position
    resampler,               \* a direct call of signal_effective_from_signal: arguments,
                             \* locals, position, and the indices it has read and written
    deref                    \* the pointer arguments XI and K_ptr of the call that
                             \* fnft_nsev_slow has dereferenced so far

vars == <<pc, args, opts, default_opts, live, allocated, q_effective, r_effective,
          Dsub, first_last_index, contspec, bound_states, K_ptr, normconsts_or_residues,
          reserve_ptr, sub_ptrs, ds_type_opt, bs_loc_opt, ret_code, call, base, hist,
          scatter, resampler, deref>>

\* a heap buffer: the pointer variable that names it and the run that allocated it
Buf(name, run) == <<name, run>>

\* what a caller's output slot holds before the call
CUnset == C(-99, -99)

\* what uninitialised memory may hold
Garbage == {C(5, 1), C(-3, 2)}

\* defaults that ask for Richardson extrapolation of residues
DefaultOptsRichardson ==
    [bound_state_filtering |-> "FULL", bound_state_localization |-> "NEWTON", niter |-> 10,
     discspec_type |-> "RESIDUES", contspec_type |-> "REFLECTION_COEFFICIENT",
     normalization_flag |-> 1, discretization |-> "BO", richardson_extrapolation_flag |-> 1]

\* default_opts (lines 34-43)
DefaultOpts ==
    [bound_state_filtering |-> "FULL", bound_state_localization |-> "NEWTON", niter |-> 10,
     discspec_type |-> "NORMING_CONSTANTS", contspec_type |-> "REFLECTION_COEFFICIENT",
     normalization_flag |-> 1, discretization |-> "BO", richardson_extrapolation_flag |-> 0]

\* the record opts points to
Opts == IF args.opts_null THEN default_opts ELSE opts

\* opts->f = v
SetOpts(f, v) ==
    IF args.opts_null
    THEN default_opts' = [default_opts EXCEPT ![f] = v] /\ UNCHANGED opts
    ELSE opts' = [opts EXCEPT ![f] = v] /\ UNCHANGED default_opts

\* eps_t of fnft_nsev_slow (line 165)
eps_t == RDiv(RSub(args.T[2], args.T[1]), R(args.D - 1))

q == Signal(args.sig, args.D)

\* number of slots of the caller's buffers
ContspecLen(type, M) ==
    CASE type = "BOTH" -> 3 * M
      [] type = "REFLECTION_COEFFICIENT" -> M
      [] type = "AB" -> 2 * M
      [] OTHER -> 3 * M

\* ------------------------------------------------------------------------
\* The calls of the model
\* ------------------------------------------------------------------------
MaxD == 4
MaxK == 2
MaxNiter == 2

Guesses == {C(0, 1), C(0, 3), C(1, 1)}

GuessArrays(K) == [0 .. K - 1 -> Guesses]

MkOpts(filt, loc, niter, ds, cs, disc, re) ==
    [bound_state_filtering |-> filt, bound_state_localization |-> loc, niter |-> niter,
     discspec_type |-> ds, contspec_type |-> cs, normalization_flag |-> 1,
     discretization |-> disc, richardson_extrapolation_flag |-> re]

\* nomem: whether the allocator of the environment can run out of memory
MkArgs(D, sig, T, M, XI, cs_null, bs_null, nc_null, kappa, Kin, guesses, opts_null, o, nomem) ==
    [D |-> D, sig |-> sig, T |-> T, M |-> M, XI |-> XI, contspec_null |-> cs_null,
     bound_states_null |-> bs_null, normconsts_null |-> nc_null, kappa |-> kappa,
     Kin |-> Kin, guesses |-> guesses, opts_null |-> opts_null, opts |-> o, nomem |-> nomem,
     null |-> {}]

Window(D) == <<R(0), R(D - 1)>>

\* bound states only
DiscreteCalls ==
    UNION { { MkArgs(D, sig, Window(D), 0, <<R(0), R(1)>>, TRUE, FALSE, FALSE, 1, K, g, FALSE,
                     MkOpts(fn[1], "NEWTON", fn[2], dr[1], "REFLECTION_COEFFICIENT", "BO", dr[2]),
                     FALSE) :
                D \in 3 .. MaxD, sig \in Signals, g \in GuessArrays(K),
                fn \in {<<"NONE", MaxNiter>>, <<"FULL", MaxNiter>>, <<"FULL", 0>>},
                dr \in {<<"NORMING_CONSTANTS", 1>>, <<"RESIDUES", 1>>, <<"BOTH", 1>>,
                        <<"BOTH", 0>>} } :
            K \in 0 .. MaxK }

\* continuous spectrum only
ContinuousCalls ==
    { MkArgs(D, sig, Window(D), M, <<R(0), R(1)>>, FALSE, TRUE, TRUE, kd[1], 0, <<>>, FALSE,
             MkOpts("FULL", kd[3], 1, "NORMING_CONSTANTS", cs, kd[2], re), FALSE) :
        D \in 2 .. MaxD, sig \in Signals, M \in {0, 2},
        kd \in {<<1, "BO", "NEWTON">>, <<-1, "BO", "UNKNOWN">>, <<1, "ES4", "NEWTON">>},
        cs \in {"REFLECTION_COEFFICIENT", "AB", "BOTH", "UNKNOWN"}, re \in {0, 1} }

\* both spectra, with options the code does not know and an initial guess
\* outside the admissible region
MixedCalls ==
    { MkArgs(3, sig, Window(3), 2, <<R(0), R(1)>>, FALSE, FALSE, nc_null, 1, 2, g, FALSE,
             MkOpts("BASIC", loc, 1, ds, cs, disc, re), TRUE) :
        sig \in Signals, g \in {ArrOf(<<C(2, 1), C(0, 1)>>), ArrOf(<<C(0, -2), C(0, 1)>>)},
        nc_null \in BOOLEAN,
        loc \in {"NEWTON", "UNKNOWN"}, ds \in {"BOTH", "UNKNOWN"},
        cs \in {"AB", "UNKNOWN"}, disc \in {"BO", "ES4", "UNKNOWN"}, re \in {0, 1} }

\* arguments the input checks reject, a one-point grid, and opts = NULL
EdgeCalls ==
    { MkArgs(D, sig, T, 1, XI, FALSE, FALSE, FALSE, kappa, 1, g, opts_null,
             MkOpts("FULL", "NEWTON", 1, "BOTH", "BOTH", "BO", 1), FALSE) :
        D \in {1, 3}, sig \in {s \in Signals : s.amp = 1}, T \in {Window(3), <<R(2), R(0)>>},
        XI \in {<<R(0), R(1)>>, <<R(1), R(1)>>}, kappa \in {1, 0},
        g \in {ArrOf(<<C(0, 1)>>)}, opts_null \in BOOLEAN }

\* bound states only, with normconsts_or_residues = NULL
BareCalls ==
    { MkArgs(D, sig, Window(D), 0, <<R(0), R(1)>>, TRUE, FALSE, TRUE, 1, 1, g, FALSE,
             MkOpts("FULL", "NEWTON", 0, ds, "REFLECTION_COEFFICIENT", "BO", re), FALSE) :
        D \in 3 .. MaxD, sig \in {s \in Signals : s.amp = 1}, g \in {ArrOf(<<C(0, 1)>>)},
        ds \in {"NORMING_CONSTANTS", "BOTH"}, re \in {0, 1} }

\* calls that pass NULL for pointer arguments: XI with no continuous spectrum
\* asked for, K_ptr with no bound states asked for, and the combinations
\* that the input checks refuse
NullPointerCalls ==
    { [MkArgs(3, sig, Window(3), 0, <<R(0), R(1)>>, TRUE, FALSE, FALSE, 1, 1, g, FALSE,
              MkOpts("FULL", "NEWTON", 0, ds, "REFLECTION_COEFFICIENT", "BO", re), FALSE)
         EXCEPT !.null = n] :
        sig \in {s \in Signals : s.amp = 1}, g \in {ArrOf(<<C(0, 1)>>)},
        ds \in {"NORMING_CONSTANTS", "RESIDUES"}, re \in {0, 1},
        n \in {{"XI"}, {"K_ptr"}, {"q"}, {"T"}} }
    \cup
    { [MkArgs(3, sig, Window(3), 2, <<R(0), R(1)>>, FALSE, TRUE, TRUE, 1, 0, <<>>, FALSE,
              MkOpts("FULL", "NEWTON", 0, ds, "REFLECTION_COEFFICIENT", "BO", re), FALSE)
         EXCEPT !.null = n] :
        sig \in {s \in Signals : s.amp = 1},
        ds \in {"NORMING_CONSTANTS", "RESIDUES"}, re \in {0, 1},
        n \in {{"K_ptr"}, {"XI"}} }

Calls == DiscreteCalls \cup ContinuousCalls \cup MixedCalls \cup EdgeCalls \cup BareCalls \cup NullPointerCalls

\* fnft_nsev_slow_default_opts (lines 49-52): a copy of default_opts
fnft_nsev_slow_default_opts == default_opts

\* the calls a caller can make when defaults is what fnft_nsev_slow_default_opts
\* returned to it: those above, and the edge calls with the returned options
CallsWith(defaults) == Calls \cup {[a EXCEPT !.opts = defaults] : a \in EdgeCalls}

\* the arguments held between two calls
NoCall == CHOOSE a \in EdgeCalls : a.D = 1

NoBase == [run |-> "none", D |-> 0, T |-> <<R(0), R(0)>>, contspec_null |-> TRUE,
           bound_states_null |-> TRUE, normconsts_null |-> TRUE]

NoLocals == [K |-> 0, i |-> 0, iter |-> 0, ret_code |-> "SUCCESS",
             re_bound_val |-> RNaN, im_bound_val |-> RNaN]

NoRun == [entered |-> FALSE, returned |-> FALSE, K_in |-> 0, K |-> 0, bound_states |-> <<>>,
          normconsts_or_residues |-> <<>>, ret_code |-> "SUCCESS"]

NoUpdate == [run |-> "none", i |-> 0, before |-> C(0, 0), updated |-> C(0, 0), left_region |-> FALSE]

\* no direct call of nse_scatter_matrix is running
NoScatter == [pc |-> "idle"]

\* no direct call of signal_effective_from_signal is running
NoResampler == [pc |-> "idle"]

NoHist == [contspec_written |-> {}, normconsts_written |-> {}, newton |-> NoUpdate,
           evals |-> [full |-> 0, sub |-> 0], Dsub_req |-> 0, full |-> NoRun, sub |-> NoRun]

Init ==
    /\ args \in CallsWith(DefaultOpts)
    /\ pc = "check_inputs"
    /\ opts = args.opts
    /\ default_opts = DefaultOpts
    /\ live = {}
    /\ allocated = {}
    /\ q_effective = [ptr |-> Buf("NULL", "main"), val |-> <<>>]
    /\ r_effective = [ptr |-> Buf("NULL", "main"), val |-> <<>>]
    /\ Dsub = 0
    /\ first_last_index = <<0, 0>>
    /\ contspec = [full |-> Arr(ContspecLen(args.opts.contspec_type, args.M), CUnset), sub |-> <<>>]
    /\ bound_states = [full |-> args.guesses, sub |-> <<>>]
    /\ K_ptr = [full |-> args.Kin, sub |-> 0]
    /\ normconsts_or_residues = [full |-> Arr(2 * args.Kin, CUnset), sub |-> <<>>, reserve |-> <<>>]
    /\ reserve_ptr = "NULL"
    /\ sub_ptrs = {}
    /\ ds_type_opt = "0"
    /\ bs_loc_opt = "0"
    /\ ret_code = "SUCCESS"
    /\ call = NoBase
    /\ base = NoLocals
    /\ hist = NoHist
    /\ deref = {}
    /\ scatter = NoScatter
    /\ resampler = NoResampler

\* ------------------------------------------------------------------------
\* fnft_nsev_slow (lines 117-323)
\* ------------------------------------------------------------------------
Malloc(bufs) == live' = live \cup bufs /\ allocated' = allocated \cup bufs

\* what a malloc (or a collaborator that allocates) can do: TRUE is success
MallocOutcomes == IF args.nomem THEN BOOLEAN ELSE {TRUE}

Free(bufs) == live' = live \ bufs /\ UNCHANGED allocated

callerBufs == <<contspec, bound_states, K_ptr, normconsts_or_residues>>
heapVars == <<live, allocated>>
signalVars == <<q_effective, r_effective, Dsub, first_last_index>>
optVars == <<opts, default_opts>>
richVars == <<reserve_ptr, sub_ptrs, ds_type_opt, bs_loc_opt>>
baseVars == <<call, base>>
envVars == <<args, deref>>

\* the call reads through the pointer arguments ptrs (XI, K_ptr)
Reads(ptrs) == deref' = deref \cup ptrs

\* what reading through the pointer argument p can do: with p = NULL the
\* behaviour is undefined, the call dies or goes on with an indeterminate value
ReadOutcomes(p) == IF p \in args.null THEN {"dies", "goes_on"} ELSE {"goes_on"}

\* lines 143-161
CheckInputs ==
    /\ pc = "check_inputs"
    /\ UNCHANGED <<scatter, resampler>>
    /\ IF \/ args.D < 2
          \/ "q" \in args.null
          \/ "T" \in args.null \/ ~RLess(args.T[1], args.T[2])
          \/ (~args.contspec_null /\ ("XI" \in args.null \/ ~RLess(args.XI[1], args.XI[2])))
          \/ Abs(args.kappa) # 1
          \/ (~args.bound_states_null /\ "K_ptr" \in args.null)
       THEN pc' = "done" /\ ret_code' = "E_INVALID_ARGUMENT"
       ELSE pc' = "richardson_prepare" /\ UNCHANGED ret_code
    \* line 151 compares XI[0] with XI[1] once the checks before it have passed
    /\ Reads(IF /\ args.D >= 2 /\ "q" \notin args.null
                 /\ "T" \notin args.null /\ RLess(args.T[1], args.T[2])
                 /\ ~args.contspec_null /\ "XI" \notin args.null
              THEN {"XI"} ELSE {})
    /\ UNCHANGED <<args, optVars, heapVars, signalVars, callerBufs, richVars, baseVars, hist>>

\* lines 167-178
RichardsonPrepare ==
    /\ pc = "richardson_prepare"
    /\ UNCHANGED <<scatter, resampler>>
    /\ IF Opts.richardson_extrapolation_flag = 1 /\ Opts.discspec_type = "RESIDUES"
       THEN /\ ds_type_opt' = Opts.discspec_type
            /\ SetOpts("discspec_type", "BOTH")
            \* line 172 reads *K_ptr for the size of the buffer
            /\ Reads({"K_ptr"})
            /\ \E ok \in MallocOutcomes, g \in Garbage, read \in ReadOutcomes("K_ptr") :
                 IF read = "dies"
                 THEN /\ reserve_ptr' = "NULL"
                      /\ pc' = "crashed"
                      /\ UNCHANGED <<normconsts_or_residues, heapVars, ret_code>>
                 ELSE IF ok
                 THEN /\ reserve_ptr' = "heap"
                      /\ normconsts_or_residues' =
                            [normconsts_or_residues EXCEPT !.reserve = Arr(2 * K_ptr.full, g)]
                      /\ Malloc({Buf("normconsts_or_residues_reserve", "main")})
                      /\ pc' = "d_scale"
                      /\ UNCHANGED ret_code
                 ELSE /\ reserve_ptr' = "NULL"
                      /\ ret_code' = "E_NOMEM"
                      /\ pc' = "release_mem"
                      /\ UNCHANGED <<normconsts_or_residues, heapVars>>
       ELSE /\ reserve_ptr' = "caller"
            /\ ds_type_opt' = IF Opts.richardson_extrapolation_flag = 1
                               THEN Opts.discspec_type ELSE ds_type_opt
            /\ pc' = "d_scale"
            /\ UNCHANGED <<optVars, normconsts_or_residues, heapVars, ret_code, deref>>
    /\ UNCHANGED <<args, signalVars, contspec, bound_states, K_ptr, sub_ptrs, bs_loc_opt,
                   baseVars, hist>>

\* lines 179-183
CheckDScale ==
    /\ pc = "d_scale"
    /\ UNCHANGED <<scatter, resampler>>
    /\ IF nse_discretization_D_scale(Opts.discretization) = 0
       THEN ret_code' = "E_INVALID_ARGUMENT" /\ pc' = "release_mem"
       ELSE pc' = "resample" /\ UNCHANGED ret_code
    /\ UNCHANGED <<envVars, optVars, heapVars, signalVars, callerBufs, richVars, baseVars, hist>>

\* lines 184-188 (run = "full", Dsub = D) and lines 251-254 (run = "sub", Dsub = CEIL(D/2)):
\* the call of signal_effective_from_signal and CHECK_RETCODE
ResampleCall(run, Dsub_req, next) ==
    \E okq, okr \in MallocOutcomes, g \in Garbage :
      \E res \in {signal_effective_from_signal(args.D, q, eps_t, args.kappa, Dsub_req,
                                               Opts.discretization, okq, okr, g)} :
         /\ Malloc({Buf(b, run) : b \in res.bufs})
         /\ IF res.out
            THEN /\ q_effective' = [ptr |-> Buf("q_effective", run), val |-> res.q_effective]
                 /\ r_effective' = [ptr |-> Buf("r_effective", run), val |-> res.r_effective]
                 /\ Dsub' = res.Dsub
                 /\ first_last_index' = res.first_last_index
            ELSE UNCHANGED signalVars
         /\ IF res.ret_code = "SUCCESS"
            THEN pc' = next /\ UNCHANGED ret_code
            ELSE pc' = "release_mem" /\ ret_code' = res.ret_code

Resample ==
    /\ pc = "resample"
    /\ UNCHANGED <<scatter, resampler>>
    /\ ResampleCall("full", args.D, "call_base")
    /\ UNCHANGED <<envVars, optVars, callerBufs, richVars, baseVars, hist>>

\* line 190: enter fnft_nsev_slow_base with the caller's buffers
CallBase ==
    /\ pc = "call_base"
    /\ UNCHANGED <<scatter, resampler>>
    /\ call' = [run |-> "full",
                D |-> args.D * nse_discretization_D_scale(Opts.discretization),
                T |-> args.T,
                contspec_null |-> args.contspec_null,
                bound_states_null |-> args.bound_states_null,
                normconsts_null |-> args.normconsts_null]
    /\ base' = NoLocals
    /\ hist' = [hist EXCEPT !.full = [NoRun EXCEPT !.entered = TRUE, !.K_in = K_ptr.full]]
    /\ pc' = "base_check"
    /\ UNCHANGED <<envVars, optVars, heapVars, signalVars, callerBufs, richVars, ret_code>>

\* lines 319-322
ReleaseMem ==
    /\ pc = "release_mem"
    /\ UNCHANGED <<scatter, resampler>>
    /\ Free({q_effective.ptr, r_effective.ptr})
    /\ pc' = "done"
    /\ UNCHANGED <<envVars, optVars, signalVars, callerBufs, richVars, baseVars, ret_code, hist>>

\* ------------------------------------------------------------------------
\* fnft_nsev_slow_base (lines 324-531)
\* ------------------------------------------------------------------------
run == call.run

D_scale == nse_discretization_D_scale(Opts.discretization)

D_given == call.D \div D_scale

\* eps_t of fnft_nsev_slow_base (line 378) and of refine_roots_newton (line 653)
base_eps_t == RDiv(RSub(call.T[2], call.T[1]), R(D_given - 1))

\* lines 598-604
re_bound(eps) == RDiv(NinePiOver20, RAbs(eps))

\* lines 608-618: 1.5 * 0.25 * misc_l2norm2(D, q, T[0], T[1])
im_bound(D, qq, T) == RMul(<<3, 8>>, misc_l2norm2(D, qq, T[1], T[2]))

\* the caller's slots written so far (only the run on the caller's buffers counts)
NoteWritten(h, field, idx) == IF run = "full" THEN [h EXCEPT ![field] = @ \cup idx] ELSE h

BaseFail(code, next) == base' = [base EXCEPT !.ret_code = code] /\ pc' = next

\* lines 348-378
BaseCheck ==
    /\ pc = "base_check"
    /\ UNCHANGED <<scatter, resampler>>
    /\ IF \/ call.D < 2
          \/ ~RLess(call.T[1], call.T[2])
          \/ (~call.contspec_null /\ ~RLess(args.XI[1], args.XI[2]))
          \/ Abs(args.kappa) # 1
       THEN BaseFail("E_INVALID_ARGUMENT", "base_return")
       ELSE IF D_scale = 0
       THEN BaseFail("E_INVALID_ARGUMENT", "base_release")
       ELSE pc' = "base_contspec" /\ UNCHANGED base
    \* line 356 compares XI[0] with XI[1] once the checks before it have passed
    /\ Reads(IF call.D >= 2 /\ RLess(call.T[1], call.T[2]) /\ ~call.contspec_null
              THEN {"XI"} ELSE {})
    /\ UNCHANGED <<args, optVars, heapVars, signalVars, callerBufs, richVars, call,
                   ret_code, hist>>

\* the grid xi[i] = XI[0] + eps_xi*i (lines 389-391)
XiGrid(M, XI) ==
    [i \in 0 .. M - 1 |-> RAdd(XI[1], RMul(RDiv(RSub(XI[2], XI[1]), R(M - 1)), R(i)))]

\* a loop that does not test its divisor
NeverZero(zeros, M) == M

\* index of the first exactly-zero entry among S11[0..M-1], M when there is none
FirstZero(zeros, M) == IF zeros = {} THEN M ELSE CHOOSE i \in zeros : \A j \in zeros : i <= j

\* T[1] + eps_t*boundary_coeff and T[0] - eps_t*boundary_coeff (lines 415, 431, 433)
PhaseT1(T, eps) == RAdd(T[2], RMul(eps, nse_discretization_boundary_coeff(Opts.discretization)))

PhaseT0(T, eps) == RSub(T[1], RMul(eps, nse_discretization_boundary_coeff(Opts.discretization)))

\* lines 417-423: the reflection coefficients, written up to the first S11 = 0
ContspecRho(xi, S11, S21, phase_factor_rho, stop, cs) ==
    [k \in DOMAIN cs |->
       IF k < stop THEN CDiv(CMul(S21[k], CExpI(RMul(xi[k], phase_factor_rho))), S11[k])
       ELSE cs[k]]

\* lines 435-438: a and b, written from slot offset on
ContspecAB(M, xi, S11, S21, phase_factor_a, phase_factor_b, offset, cs) ==
    [k \in DOMAIN cs |->
       IF k \in offset .. offset + M - 1
       THEN CMul(S11[k - offset], CExpI(RMul(xi[k - offset], phase_factor_a)))
       ELSE IF k \in offset + M .. offset + 2 * M - 1
       THEN CMul(S21[k - offset - M], CExpI(RMul(xi[k - offset - M], phase_factor_b)))
       ELSE cs[k]]

\* lines 405-446: the switch on contspec_type, applied to the buffer cs.
\* ret_code, whether the function returned without reaching release_mem, the
\* buffer, and the slots written.
ContspecSwitch(type, M, xi, S11, S21, t0, t1, stop, cs) ==
    IF type \in {"BOTH", "REFLECTION_COEFFICIENT"} /\ stop < M
    THEN [ret_code |-> "E_DIV_BY_ZERO", returned |-> TRUE,
          cs |-> ContspecRho(xi, S11, S21, RMul(R(-2), t1), stop, cs),
          written |-> 0 .. stop - 1]
    ELSE IF type = "REFLECTION_COEFFICIENT"
    THEN [ret_code |-> "SUCCESS", returned |-> FALSE,
          cs |-> ContspecRho(xi, S11, S21, RMul(R(-2), t1), M, cs),
          written |-> 0 .. M - 1]
    ELSE IF type = "BOTH"
    THEN [ret_code |-> "SUCCESS", returned |-> FALSE,
          cs |-> ContspecAB(M, xi, S11, S21, RSub(t1, t0), RSub(RNeg(t1), t0), M,
                            ContspecRho(xi, S11, S21, RMul(R(-2), t1), M, cs)),
          written |-> 0 .. 3 * M - 1]
    ELSE IF type = "AB"
    THEN [ret_code |-> "SUCCESS", returned |-> FALSE,
          cs |-> ContspecAB(M, xi, S11, S21, RSub(t1, t0), RSub(RNeg(t1), t0), 0, cs),
          written |-> 0 .. 2 * M - 1]
    ELSE [ret_code |-> "E_INVALID_ARGUMENT", returned |-> FALSE, cs |-> cs, written |-> {}]

\* the scattering coefficients at the grid xi, and then the switch
ContspecAt(type, M, xi, T, eps, cs) ==
    ContspecSwitch(type, M, xi,
                   [i \in 0 .. M - 1 |-> S11_of(args.sig, D_given, xi[i])],
                   [i \in 0 .. M - 1 |-> S21_of(args.sig, D_given, xi[i])],
                   PhaseT0(T, eps), PhaseT1(T, eps),
                   FirstZero({i \in 0 .. M - 1 : CIsZero(S11_of(args.sig, D_given, xi[i]))}, M),
                   cs)

\* lines 380-447
BaseContspec ==
    /\ pc = "base_contspec"
    /\ UNCHANGED <<scatter, resampler>>
    /\ IF ~call.contspec_null /\ args.M > 0
       THEN \E okxi, oksc, okscatter \in MallocOutcomes :
              /\ Malloc((IF okxi THEN {Buf("xi", run)} ELSE {})
                         \cup (IF oksc THEN {Buf("scatter_coeffs", run)} ELSE {}))
              \* lines 389-391 read XI[0] and XI[1] for the grid
              /\ Reads(IF okxi /\ oksc THEN {"XI"} ELSE {})
              /\ IF ~(okxi /\ oksc)
                 THEN BaseFail("E_NOMEM", "base_release") /\ UNCHANGED <<contspec, hist>>
                 ELSE IF ~okscatter
                 THEN BaseFail("E_NOMEM", "base_release") /\ UNCHANGED <<contspec, hist>>
                 ELSE \E res \in {ContspecAt(Opts.contspec_type, args.M,
                                             XiGrid(args.M, args.XI), call.T, base_eps_t,
                                             contspec[run])} :
                          /\ contspec' = [contspec EXCEPT ![run] = res.cs]
                          /\ hist' = NoteWritten(hist, "contspec_written", res.written)
                          /\ IF res.ret_code = "SUCCESS"
                             THEN pc' = "base_localize" /\ UNCHANGED base
                             ELSE BaseFail(res.ret_code,
                                           IF res.returned THEN "base_return" ELSE "base_release")
       ELSE pc' = "base_localize" /\ UNCHANGED <<heapVars, contspec, base, hist, deref>>
    /\ UNCHANGED <<args, optVars, signalVars, bound_states, K_ptr, normconsts_or_residues,
                   richVars, call, ret_code>>

\* the admissible region of refine_roots_newton (lines 679-682)
OutOfRegion(lam, re_bound_val, im_bound_val) ==
    \/ RLess(im_bound_val, lam[2])
    \/ RLess(re_bound_val, lam[1])
    \/ RLess(lam[1], RNeg(re_bound_val))
    \/ RLess(lam[2], R(0))

\* lines 449-473 and the entry of refine_roots_newton (lines 631-660)
BaseLocalize ==
    /\ pc = "base_localize"
    /\ UNCHANGED <<scatter, resampler>>
    /\ IF args.kappa = 1 /\ ~call.bound_states_null
       THEN IF Opts.bound_state_localization = "NEWTON"
            THEN /\ base' = [base EXCEPT
                               !.K = K_ptr[run], !.i = 0, !.iter = 0,
                               !.im_bound_val = RMul(R(D_scale * D_scale),
                                                     im_bound(call.D, q_effective.val, call.T)),
                               !.re_bound_val = re_bound(base_eps_t)]
                 /\ pc' = IF K_ptr[run] = 0 \/ Opts.niter = 0 THEN "base_filter" ELSE "newton"
                 /\ UNCHANGED K_ptr
            ELSE BaseFail("E_INVALID_ARGUMENT", "base_return") /\ UNCHANGED K_ptr
       ELSE /\ K_ptr' = [K_ptr EXCEPT ![run] = 0]
            /\ pc' = "base_release"
            /\ UNCHANGED base
    \* line 460: K = *K_ptr; the K_ptr of the sub-run is &K_sub
    /\ Reads(IF /\ args.kappa = 1 /\ ~call.bound_states_null
                 /\ Opts.bound_state_localization = "NEWTON" /\ run = "full"
              THEN {"K_ptr"} ELSE {})
    /\ UNCHANGED <<args, optVars, heapVars, signalVars, contspec, bound_states,
                   normconsts_or_residues, richVars, call, ret_code, hist>>

\* a loop that does not reset iter for the next candidate
NextCandidateKeepsIter ==
    /\ base' = [base EXCEPT !.i = @ + 1]
    /\ pc' = IF base.i + 1 < base.K THEN "newton" ELSE "base_filter"

\* the loop for candidate i has ended: go to the next one, or leave the for loop
NextCandidate ==
    /\ base' = [base EXCEPT !.i = @ + 1, !.iter = 0]
    /\ pc' = IF base.i + 1 < base.K THEN "newton" ELSE "base_filter"

\* a solver that restores the value before the update when the update has
\* left the region
NewtonKeepsAdmissible(before, updated, left) == IF left THEN before ELSE updated

\* line 677: the update is stored in the candidate's slot, before the region
\* test of lines 679-683
NewtonStored(before, updated, left) == updated

\* lines 666-677: a, a' and the Newton update of lam
NewtonUpdate(lam, aprime_val, a_val) ==
    [aprime_val |-> aprime_val, error |-> CDiv(a_val, aprime_val),
     updated |-> CSub(lam, CDiv(a_val, aprime_val))]

\* a loop that tests the cap with <=
NewtonContinuesInclusive(error, iter, niter) == ~CIsZero(error) /\ iter <= niter

\* line 685: while (CABS(error) > eprecision && iter < niter), iter being the
\* count of updates applied so far
NewtonContinues(error, iter, niter) == ~CIsZero(error) /\ iter < niter

\* one pass through the do-while body of refine_roots_newton (lines 665-685).
\* CABS(error) > EPSILON*100 holds for every nonzero error of this model.
NewtonStep ==
    /\ pc = "newton"
    /\ UNCHANGED <<scatter, resampler>>
    /\ \E okscatter \in MallocOutcomes :
         \E u \in {NewtonUpdate(bound_states[run][base.i],
                                aprime_of(args.sig, args.D * D_scale, call.D,
                                          bound_states[run][base.i]),
                                a_of(args.sig, args.D * D_scale, call.D,
                                     bound_states[run][base.i]))} :
         \E left \in {OutOfRegion(u.updated, base.re_bound_val, base.im_bound_val)} :
             IF ~okscatter
             THEN /\ BaseFail("E_NOMEM", "base_release")
                  /\ hist' = [hist EXCEPT !.evals[run] = @ + 1]
                  /\ UNCHANGED bound_states
             ELSE IF CIsZero(u.aprime_val)
             THEN /\ BaseFail("E_DIV_BY_ZERO", "base_release")
                  /\ hist' = [hist EXCEPT !.evals[run] = @ + 1]
                  /\ UNCHANGED bound_states
             ELSE /\ bound_states' = [bound_states EXCEPT ![run][base.i] =
                                         NewtonStored(@, u.updated, left)]
                  /\ hist' = [hist EXCEPT !.evals[run] = @ + 1, !.newton =
                                 [run |-> run, i |-> base.i, before |-> bound_states[run][base.i],
                                  updated |-> u.updated, left_region |-> left]]
                  /\ IF left
                     THEN NextCandidate
                     ELSE IF NewtonContinues(u.error, base.iter + 1, Opts.niter)
                     THEN base' = [base EXCEPT !.iter = @ + 1] /\ pc' = "newton"
                     ELSE NextCandidate
    /\ UNCHANGED <<envVars, optVars, heapVars, signalVars, contspec, K_ptr,
                   normconsts_or_residues, richVars, call, ret_code>>

\* q_tmp[i] = D_scale*q[j], j = 1, 1 + D_scale, ... (lines 500-504)
QTmp(n, qq, scale) == [i \in 0 .. n - 1 |-> CScale(R(scale), qq[1 + i * scale])]

\* a pass that leaves the lower half plane in
NoBasicFilter(K, vals) == [K |-> K, vals |-> vals]

\* lines 476-485: the filter to the upper half plane, unless filtering is off
BasicFilter(K, vals) ==
    IF Opts.bound_state_filtering # "NONE"
    THEN misc_filter(K, vals, <<RNaN, RNaN, R(0), RNaN>>)
    ELSE [K |-> K, vals |-> vals]

\* lines 487-507: the bounding box of the full filter
FullBox(rb, ib) == <<RNeg(rb), rb, R(0), ib>>

\* lines 475-509
BaseFilter ==
    /\ pc = "base_filter"
    /\ UNCHANGED <<scatter, resampler>>
    /\ \E basic \in {BasicFilter(base.K, bound_states[run])} :
           IF Opts.bound_state_filtering = "FULL"
           THEN \E okqtmp \in MallocOutcomes :
                  IF D_scale # 1 /\ ~okqtmp
                  THEN /\ BaseFail("E_NOMEM", "base_release")
                       /\ bound_states' = [bound_states EXCEPT ![run] = basic.vals]
                       /\ UNCHANGED heapVars
                  ELSE \E full \in {misc_filter(basic.K, basic.vals,
                                      FullBox(re_bound(base_eps_t),
                                              IF D_scale = 1
                                              THEN im_bound(D_given, q_effective.val, call.T)
                                              ELSE im_bound(D_given,
                                                            QTmp(D_given, q_effective.val, D_scale),
                                                            call.T)))} :
                           /\ IF D_scale # 1 THEN Malloc({Buf("q_tmp", run)}) ELSE UNCHANGED heapVars
                           /\ bound_states' = [bound_states EXCEPT ![run] = full.vals]
                           /\ base' = [base EXCEPT !.K = full.K]
                           /\ pc' = "base_merge"
           ELSE /\ bound_states' = [bound_states EXCEPT ![run] = basic.vals]
                /\ base' = [base EXCEPT !.K = basic.K]
                /\ pc' = "base_merge"
                /\ UNCHANGED heapVars
    /\ UNCHANGED <<envVars, optVars, signalVars, contspec, K_ptr, normconsts_or_residues,
                   richVars, call, ret_code, hist>>

\* a pass that merges nothing
BaseMergeSkipped ==
    /\ pc = "base_merge"
    /\ pc' = "base_normconsts"
    /\ UNCHANGED <<scatter, resampler, deref, args, opts, default_opts, live, allocated, q_effective,
                   r_effective, Dsub, first_last_index, contspec, bound_states, K_ptr,
                   normconsts_or_residues, reserve_ptr, sub_ptrs, ds_type_opt, bs_loc_opt,
                   ret_code, call, base, hist>>

\* lines 511-512
BaseMerge ==
    /\ pc = "base_merge"
    /\ UNCHANGED <<scatter, resampler>>
    /\ \E m \in {misc_merge(base.K, bound_states[run])} :
           /\ bound_states' = [bound_states EXCEPT ![run] = m.vals]
           /\ base' = [base EXCEPT !.K = m.K]
    /\ pc' = "base_normconsts"
    /\ UNCHANGED <<envVars, optVars, heapVars, signalVars, contspec, K_ptr,
                   normconsts_or_residues, richVars, call, ret_code, hist>>

\* ------------------------------------------------------------------------
\* compute_normconsts_or_residues (lines 535-593) for K bound states, on the
\* buffer nc.  oka, okap, okscatter: whether the two mallocs and the call of
\* nse_scatter_bound_states succeed.  leaked: whether it returned without
\* reaching leave_fun.
\* ------------------------------------------------------------------------
\* line 564: nse_scatter_bound_states puts b(bound_states[i]) into slot i, i < K
WithB(Dn, K, bs, nc) ==
    [k \in DOMAIN nc |-> IF k < K THEN b_of(args.sig, args.D * D_scale, Dn, bs[k]) ELSE nc[k]]

\* lines 573-577: with "BOTH" the first K slots are copied behind themselves
Copied(K, type, nc) ==
    [k \in DOMAIN nc |-> IF type = "BOTH" /\ k \in K .. 2 * K - 1 THEN nc[k - K] ELSE nc[k]]

\* a loop that divides slots 0 .. stop-1 whatever the offset
DividedAtZero(Dn, bs, offset, stop, nc) ==
    [k \in DOMAIN nc |->
       IF k \in 0 .. stop - 1
       THEN CDiv(nc[k], aprime_of(args.sig, args.D * D_scale, Dn, bs[k]))
       ELSE nc[k]]

\* lines 582-586: slots offset .. offset+stop-1 are divided by a'
Divided(Dn, bs, offset, stop, nc) ==
    [k \in DOMAIN nc |->
       IF k \in offset .. offset + stop - 1
       THEN CDiv(nc[k], aprime_of(args.sig, args.D * D_scale, Dn, bs[k - offset]))
       ELSE nc[k]]

NormconstsResult(code, nc, written, bufs, leaked) ==
    [ret_code |-> code, nc |-> nc, written |-> written, bufs |-> bufs, leaked |-> leaked]

\* stop: the first i < K with a'(bound_states[i]) = 0, K when there is none
NormconstsSwitch(Dn, K, bs, nc, type, stop, ok, bufs) ==
    IF K = 0 THEN NormconstsResult("SUCCESS", nc, {}, {}, {})
    ELSE IF ~ok THEN NormconstsResult("E_NOMEM", nc, {}, bufs, {})
    ELSE IF type = "NORMING_CONSTANTS"
    THEN NormconstsResult("SUCCESS", WithB(Dn, K, bs, nc), 0 .. K - 1, bufs, {})
    ELSE IF type \notin {"RESIDUES", "BOTH"}
    THEN NormconstsResult("E_INVALID_ARGUMENT", WithB(Dn, K, bs, nc), 0 .. K - 1, bufs, bufs)
    ELSE IF type = "RESIDUES"
    THEN NormconstsResult(IF stop < K THEN "E_DIV_BY_ZERO" ELSE "SUCCESS",
                          Divided(Dn, bs, 0, stop, WithB(Dn, K, bs, nc)),
                          0 .. K - 1, bufs, IF stop < K THEN bufs ELSE {})
    ELSE NormconstsResult(IF stop < K THEN "E_DIV_BY_ZERO" ELSE "SUCCESS",
                          Divided(Dn, bs, K, stop, Copied(K, type, WithB(Dn, K, bs, nc))),
                          0 .. 2 * K - 1, bufs, IF stop < K THEN bufs ELSE {})

compute_normconsts_or_residues(Dn, K, bs, nc, type, oka, okap, okscatter) ==
    NormconstsSwitch(Dn, K, bs, nc, type,
                     FirstZero({i \in 0 .. K - 1 :
                                  CIsZero(aprime_of(args.sig, args.D * D_scale, Dn, bs[i]))}, K),
                     oka /\ okap /\ okscatter,
                     (IF oka THEN {"a_vals"} ELSE {}) \cup (IF okap THEN {"aprime_vals"} ELSE {}))

\* lines 514-525: the norming constants and/or residues, then *K_ptr = K
BaseNormconsts ==
    /\ pc = "base_normconsts"
    /\ UNCHANGED <<scatter, resampler>>
    /\ IF ~call.normconsts_null /\ K_ptr[run] # 0
       THEN \E oka, okap, okscatter \in MallocOutcomes :
              \E res \in {compute_normconsts_or_residues(call.D, K_ptr[run], bound_states[run],
                                                         normconsts_or_residues[run],
                                                         Opts.discspec_type, oka, okap, okscatter)} :
                  /\ normconsts_or_residues' = [normconsts_or_residues EXCEPT ![run] = res.nc]
                  /\ hist' = NoteWritten(hist, "normconsts_written", res.written)
                  /\ allocated' = allocated \cup {Buf(b, run) : b \in res.bufs}
                  /\ live' = live \cup {Buf(b, run) : b \in res.leaked}
                  /\ IF res.ret_code = "SUCCESS"
                     THEN /\ K_ptr' = [K_ptr EXCEPT ![run] = base.K]
                          /\ pc' = "base_release"
                          /\ UNCHANGED base
                     ELSE BaseFail(res.ret_code, "base_release") /\ UNCHANGED K_ptr
       ELSE /\ K_ptr' = [K_ptr EXCEPT ![run] = base.K]
            /\ pc' = "base_release"
            /\ UNCHANGED <<normconsts_or_residues, hist, heapVars, base>>
    \* lines 515-517 read *K_ptr when normconsts_or_residues is not NULL
    /\ Reads(IF ~call.normconsts_null /\ run = "full" THEN {"K_ptr"} ELSE {})
    /\ UNCHANGED <<args, optVars, signalVars, contspec, bound_states, richVars, call, ret_code>>

\* lines 526-530
BaseRelease ==
    /\ pc = "base_release"
    /\ UNCHANGED <<scatter, resampler>>
    /\ Free({Buf("scatter_coeffs", run), Buf("xi", run), Buf("q_tmp", run)})
    /\ pc' = "base_return"
    /\ UNCHANGED <<envVars, optVars, signalVars, callerBufs, richVars, baseVars, ret_code, hist>>

\* the return to fnft_nsev_slow: CHECK_RETCODE (line 192 for the full run,
\* lines 267-269 for the sub-run)
BaseReturn ==
    /\ pc = "base_return"
    /\ UNCHANGED <<scatter, resampler>>
    /\ ret_code' = base.ret_code
    /\ hist' = [hist EXCEPT ![run] = [@ EXCEPT !.returned = TRUE, !.K = K_ptr[run],
                                                !.bound_states = bound_states[run],
                                                !.normconsts_or_residues = normconsts_or_residues[run],
                                                !.ret_code = base.ret_code]]
    /\ IF base.ret_code # "SUCCESS"
       THEN pc' = "release_mem" /\ UNCHANGED optVars
       ELSE IF run = "full"
       THEN /\ pc' = IF Opts.richardson_extrapolation_flag = 1
                     THEN "richardson_alloc" ELSE "release_mem"
            /\ UNCHANGED optVars
       ELSE /\ pc' = "richardson_contspec"
            /\ IF args.opts_null
               THEN /\ default_opts' = [default_opts EXCEPT
                                          !.bound_state_localization = bs_loc_opt,
                                          !.discspec_type = ds_type_opt]
                    /\ UNCHANGED opts
               ELSE /\ opts' = [opts EXCEPT !.bound_state_localization = bs_loc_opt,
                                            !.discspec_type = ds_type_opt]
                    /\ UNCHANGED default_opts
    /\ UNCHANGED <<envVars, heapVars, signalVars, callerBufs, richVars, baseVars>>

\* ------------------------------------------------------------------------
\* The Richardson extrapolation step of fnft_nsev_slow (lines 194-318)
\* ------------------------------------------------------------------------
\* lines 197-243: the buffers of the sub-run
RichardsonAlloc ==
    /\ pc = "richardson_alloc"
    /\ UNCHANGED <<scatter, resampler>>
    /\ \E okcs, okbs, oknc \in MallocOutcomes, g \in Garbage :
         LET wantcs == ~args.contspec_null /\ args.M > 0
             badcs == wantcs /\ Opts.contspec_type \notin {"BOTH", "REFLECTION_COEFFICIENT", "AB"}
             contspec_len == IF wantcs THEN ContspecLen(Opts.contspec_type, args.M) ELSE 0
             gotcs == wantcs /\ ~badcs /\ okcs
             wantds == args.kappa = 1 /\ ~args.bound_states_null /\ K_ptr.full # 0
             K_sub == K_ptr.full
             badds == Opts.discspec_type \notin {"BOTH", "RESIDUES", "NORMING_CONSTANTS"}
             discspec_len == IF Opts.discspec_type = "NORMING_CONSTANTS" THEN K_sub ELSE 2 * K_sub
             \* the allocations reached, in program order
             reachds == wantds /\ ~badcs /\ (wantcs => okcs)
             gotbs == reachds /\ okbs
             gotnc == reachds /\ ~badds /\ oknc
             code == IF badcs THEN "E_INVALID_ARGUMENT"
                     ELSE IF wantcs /\ ~okcs THEN "E_NOMEM"
                     ELSE IF wantds /\ badds THEN "E_INVALID_ARGUMENT"
                     ELSE IF wantds /\ ~(okbs /\ oknc) THEN "E_NOMEM"
                     ELSE "SUCCESS"
         IN  /\ Malloc((IF gotcs THEN {Buf("contspec_sub", "main")} ELSE {})
                        \cup (IF gotbs THEN {Buf("bound_states_sub", "main")} ELSE {})
                        \cup (IF gotnc THEN {Buf("normconsts_or_residues_sub", "main")} ELSE {}))
             /\ sub_ptrs' = (IF gotcs THEN {"contspec_sub"} ELSE {})
                            \cup (IF gotbs THEN {"bound_states_sub"} ELSE {})
                            \cup (IF gotnc THEN {"normconsts_or_residues_sub"} ELSE {})
             /\ contspec' = [contspec EXCEPT !.sub =
                               IF gotcs THEN Arr(contspec_len, g) ELSE @]
             /\ bound_states' = [bound_states EXCEPT !.sub =
                                   IF code = "SUCCESS" /\ wantds
                                   THEN [i \in 0 .. K_sub - 1 |-> bound_states.full[i]] ELSE @]
             /\ normconsts_or_residues' = [normconsts_or_residues EXCEPT !.sub =
                                             IF gotnc THEN Arr(discspec_len, g) ELSE @]
             /\ K_ptr' = [K_ptr EXCEPT !.sub = IF wantds /\ ~badcs /\ (wantcs => okcs)
                                               THEN K_sub ELSE @]
             /\ IF code = "SUCCESS"
                THEN pc' = "richardson_resample" /\ UNCHANGED ret_code
                ELSE pc' = "release_mem" /\ ret_code' = code
             \* line 219 reads *K_ptr behind kappa == +1 && bound_states != NULL
             /\ Reads(IF /\ ~badcs /\ (wantcs => okcs)
                          /\ args.kappa = 1 /\ ~args.bound_states_null
                       THEN {"K_ptr"} ELSE {})
    /\ UNCHANGED <<args, optVars, signalVars, reserve_ptr, ds_type_opt, bs_loc_opt,
                   baseVars, hist>>

\* line 251: Dsub = CEIL(D/2), where D/2 is the quotient of two unsigned
\* integers
RequestedDsub(D) == D \div 2

\* lines 244-254: the method order, Dsub = CEIL(D/2) (an integer division), and
\* the second call of signal_effective_from_signal
RichardsonResample ==
    /\ pc = "richardson_resample"
    /\ UNCHANGED <<scatter, resampler>>
    /\ IF nse_discretization_method_order(Opts.discretization) = 0
       THEN /\ ret_code' = "E_INVALID_ARGUMENT"
            /\ pc' = "release_mem"
            /\ UNCHANGED <<heapVars, signalVars>>
            /\ UNCHANGED hist
       ELSE /\ ResampleCall("sub", RequestedDsub(args.D), "call_base_sub")
            /\ hist' = [hist EXCEPT !.Dsub_req = RequestedDsub(args.D)]
    /\ UNCHANGED <<envVars, optVars, callerBufs, richVars, baseVars>>

\* the window of the full run
TsubFullWindow == args.T

\* lines 257-259
Tsub == <<RAdd(args.T[1], RMul(R(first_last_index[1]), eps_t)),
          RAdd(args.T[1], RMul(R(first_last_index[2]), eps_t))>>

\* line 260
eps_t_sub == RDiv(RSub(Tsub[2], Tsub[1]), R(Dsub - 1))

\* a sub-run that keeps the caller's localization method
CallerLocalization(bs_loc) == bs_loc

\* line 264: the localization method of the sub-run
SubRunLocalization(bs_loc) == "NEWTON"

\* lines 262-266: enter fnft_nsev_slow_base with the sub-run's buffers
CallBaseSub ==
    /\ pc = "call_base_sub"
    /\ UNCHANGED <<scatter, resampler>>
    /\ bs_loc_opt' = Opts.bound_state_localization
    /\ SetOpts("bound_state_localization", SubRunLocalization(Opts.bound_state_localization))
    /\ call' = [run |-> "sub",
                D |-> Dsub * D_scale,
                T |-> Tsub,
                contspec_null |-> "contspec_sub" \notin sub_ptrs,
                bound_states_null |-> "bound_states_sub" \notin sub_ptrs,
                normconsts_null |-> "normconsts_or_residues_sub" \notin sub_ptrs]
    /\ base' = NoLocals
    /\ hist' = [hist EXCEPT !.sub = [NoRun EXCEPT !.entered = TRUE, !.K_in = K_ptr.sub]]
    /\ pc' = "base_check"
    /\ UNCHANGED <<envVars, heapVars, signalVars, callerBufs, reserve_ptr, sub_ptrs,
                   ds_type_opt, ret_code>>

\* lines 271-272
scl_num == RPow(RDiv(R(args.D), R(Dsub)), nse_discretization_method_order(Opts.discretization))

scl_den == RSub(scl_num, R(1))

\* (scl_num*full - sub)/scl_den
Extrapolate(full, sub) == CDivR(CSub(CScale(scl_num, full), sub), scl_den)

\* a step that extrapolates every grid point
AlwaysInside(i, M, XI) == TRUE

\* line 276: FABS(XI[0]+dxi*i) < 0.9*PI/(2.0*eps_t_sub)
InsideBand(i, M, XI) ==
    RLess(RAbs(RAdd(XI[1], RMul(RDiv(RSub(XI[2], XI[1]), R(M - 1)), R(i)))),
          RDiv(NinePiOver20, eps_t_sub))

\* lines 273-281, on the caller's contspec cs with the sub-run's cs_sub
RichardsonContspecStep(cs, cs_sub, M, XI, contspec_len) ==
    [k \in DOMAIN cs |-> IF k < contspec_len /\ InsideBand(k % M, M, XI)
                         THEN Extrapolate(cs[k], cs_sub[k]) ELSE cs[k]]

RichardsonContspec ==
    /\ pc = "richardson_contspec"
    /\ UNCHANGED <<scatter, resampler>>
    /\ IF ~args.contspec_null /\ args.M > 0
       THEN \E new \in {RichardsonContspecStep(contspec.full, contspec.sub, args.M, args.XI,
                                                ContspecLen(Opts.contspec_type, args.M))} :
                /\ contspec' = [contspec EXCEPT !.full = new]
                /\ hist' = [hist EXCEPT !.contspec_written =
                               @ \cup {k \in DOMAIN new : new[k] # contspec.full[k]}]
       ELSE UNCHANGED <<contspec, hist>>
    \* line 273: dxi = (XI[1]-XI[0])/(M-1), before contspec is tested
    /\ Reads({"XI"})
    /\ \E read \in ReadOutcomes("XI") :
         pc' = IF read = "dies" THEN "crashed" ELSE "richardson_bound_states"
    /\ UNCHANGED <<args, optVars, heapVars, signalVars, bound_states, K_ptr,
                   normconsts_or_residues, richVars, baseVars, ret_code>>

\* lines 290-298: the sub-run eigenvalue matched to lam, K_sub when there is none.
\* bs_err < bs_err_thres is compared on the squares; j ascending, strict <.
RelErr2(lam, mu) == RDiv(CAbs2(CSub(lam, mu)), CAbs2(lam))

RECURSIVE MatchLoc(_, _, _, _, _, _)
MatchLoc(lam, bs_sub, K_sub, j, loc, thres2) ==
    IF j = K_sub THEN loc
    ELSE IF RLess(RelErr2(lam, bs_sub[j]), thres2)
    THEN MatchLoc(lam, bs_sub, K_sub, j + 1, j, RelErr2(lam, bs_sub[j]))
    ELSE MatchLoc(lam, bs_sub, K_sub, j + 1, loc, thres2)

\* a' from the norming constant in slot k and the residue in slot K + k
APrime(nc, k, K) == CDiv(nc[k], nc[K + k])

\* lines 303, 306, 308: slot K+i of normconsts_or_residues_reserve
RichardsonResidue(res, sub, i, K, loc, K_sub) ==
    [res EXCEPT ![K + i] = CDiv(res[i], Extrapolate(APrime(res, i, K), APrime(sub, loc, K_sub)))]

\* line 304: slot K_sub+loc of normconsts_or_residues_sub becomes a'
SubConverted(sub, loc, K_sub) == [sub EXCEPT ![K_sub + loc] = APrime(sub, loc, K_sub)]

\* lines 299-310, for the full-run eigenvalue i and its match loc.
\* st = [bs, res, sub]: bound_states, normconsts_or_residues_reserve and
\* normconsts_or_residues_sub.
RichardsonMatched(st, i, K, K_sub, loc, type) ==
    IF loc < K_sub
    THEN [bs |-> [st.bs EXCEPT ![i] = Extrapolate(st.bs[i], bound_states.sub[loc])],
          res |-> IF type \in {"RESIDUES", "BOTH"}
                  THEN RichardsonResidue(st.res, st.sub, i, K, loc, K_sub) ELSE st.res,
          sub |-> IF type \in {"RESIDUES", "BOTH"}
                  THEN SubConverted(st.sub, loc, K_sub) ELSE st.sub]
    ELSE st

\* lines 289-311: the loop over the K full-run eigenvalues, from index i on
RECURSIVE RichardsonLoop(_, _, _, _, _)
RichardsonLoop(st, i, K, K_sub, type) ==
    IF i = K THEN st
    ELSE RichardsonLoop(RichardsonMatched(st, i, K, K_sub,
                                          MatchLoc(st.bs[i], bound_states.sub, K_sub, 0, K_sub,
                                                   RMul(eps_t, eps_t)),
                                          type),
                        i + 1, K, K_sub, type)

\* lines 312-315: what the caller's buffer holds after the memcpy
RichardsonCopy(K, res) ==
    IF ds_type_opt = "RESIDUES"
    THEN [k \in DOMAIN normconsts_or_residues.full |->
            IF k < K THEN res[K + k] ELSE normconsts_or_residues.full[k]]
    ELSE IF reserve_ptr = "caller" THEN res
    ELSE normconsts_or_residues.full

\* lines 282-317
RichardsonBoundStates ==
    /\ pc = "richardson_bound_states"
    /\ UNCHANGED <<scatter, resampler>>
    /\ IF args.kappa = 1 /\ ~args.bound_states_null /\ K_ptr.full # 0 /\ K_ptr.sub # 0
       THEN IF ds_type_opt \in {"RESIDUES", "BOTH"} /\ reserve_ptr = "caller"
               /\ args.normconsts_null
            \* normconsts_or_residues_reserve is NULL and is dereferenced
            THEN pc' = "crashed" /\ UNCHANGED <<bound_states, normconsts_or_residues, hist>>
            ELSE \E st \in {RichardsonLoop(
                              [bs |-> bound_states.full,
                               res |-> IF reserve_ptr = "caller" THEN normconsts_or_residues.full
                                       ELSE normconsts_or_residues.reserve,
                               sub |-> normconsts_or_residues.sub],
                              0, K_ptr.full, K_ptr.sub, ds_type_opt)} :
                     /\ bound_states' = [bound_states EXCEPT !.full = st.bs]
                     /\ normconsts_or_residues' =
                           [normconsts_or_residues EXCEPT
                              !.full = RichardsonCopy(K_ptr.full, st.res),
                              !.reserve = IF reserve_ptr = "caller" THEN @ ELSE st.res,
                              !.sub = st.sub]
                     /\ hist' = [hist EXCEPT !.normconsts_written =
                                    @ \cup (IF ds_type_opt = "RESIDUES" THEN 0 .. K_ptr.full - 1
                                            ELSE IF ds_type_opt = "BOTH"
                                            THEN 0 .. 2 * K_ptr.full - 1
                                            ELSE {})]
                     /\ pc' = "release_mem"
       ELSE pc' = "release_mem" /\ UNCHANGED <<bound_states, normconsts_or_residues, hist>>
    \* line 282 reads *K_ptr behind kappa == +1 && bound_states != NULL
    /\ Reads(IF args.kappa = 1 /\ ~args.bound_states_null THEN {"K_ptr"} ELSE {})
    /\ UNCHANGED <<args, optVars, heapVars, signalVars, contspec, K_ptr, richVars,
                   baseVars, ret_code>>

\* the caller has the status and the outputs of the call that returned; only
\* default_opts, the one static object of the file, outlives the call
CallerCollects ==
    /\ pc = "done"
    /\ UNCHANGED <<scatter, resampler>>
    /\ pc' = "caller"
    /\ args' = NoCall
    /\ opts' = NoCall.opts
    /\ live' = {}
    /\ allocated' = {}
    /\ q_effective' = [ptr |-> Buf("NULL", "main"), val |-> <<>>]
    /\ r_effective' = [ptr |-> Buf("NULL", "main"), val |-> <<>>]
    /\ Dsub' = 0
    /\ first_last_index' = <<0, 0>>
    /\ contspec' = [full |-> <<>>, sub |-> <<>>]
    /\ bound_states' = [full |-> <<>>, sub |-> <<>>]
    /\ K_ptr' = [full |-> 0, sub |-> 0]
    /\ normconsts_or_residues' = [full |-> <<>>, sub |-> <<>>, reserve |-> <<>>]
    /\ reserve_ptr' = "NULL"
    /\ sub_ptrs' = {}
    /\ ds_type_opt' = "0"
    /\ bs_loc_opt' = "0"
    /\ ret_code' = "SUCCESS"
    /\ call' = NoBase
    /\ base' = NoLocals
    /\ hist' = NoHist
    /\ deref' = {}
    /\ UNCHANGED default_opts

\* the caller calls fnft_nsev_slow again (lines 117-123), with fresh output
\* buffers and with the options it chose or got from fnft_nsev_slow_default_opts
NextCall ==
    /\ pc = "caller"
    /\ UNCHANGED <<scatter, resampler>>
    /\ \E a \in CallsWith(fnft_nsev_slow_default_opts) :
         /\ args' = a
         /\ opts' = a.opts
         /\ contspec' = [full |-> Arr(ContspecLen(a.opts.contspec_type, a.M), CUnset), sub |-> <<>>]
         /\ bound_states' = [full |-> a.guesses, sub |-> <<>>]
         /\ K_ptr' = [full |-> a.Kin, sub |-> 0]
         /\ normconsts_or_residues' = [full |-> Arr(2 * a.Kin, CUnset), sub |-> <<>>, reserve |-> <<>>]
    /\ pc' = "check_inputs"
    /\ UNCHANGED <<default_opts, live, allocated, q_effective, r_effective, Dsub,
                   first_last_index, reserve_ptr, sub_ptrs, ds_type_opt, bs_loc_opt,
                   ret_code, call, base, hist, deref>>

Next ==
    \/ CheckInputs
    \/ RichardsonPrepare
    \/ CheckDScale
    \/ Resample
    \/ CallBase
    \/ BaseCheck
    \/ BaseContspec
    \/ BaseLocalize
    \/ NewtonStep
    \/ BaseFilter
    \/ BaseMerge
    \/ BaseNormconsts
    \/ BaseRelease
    \/ BaseReturn
    \/ RichardsonAlloc
    \/ RichardsonResample
    \/ CallBaseSub
    \/ RichardsonContspec
    \/ RichardsonBoundStates
    \/ ReleaseMem
    \/ CallerCollects
    \/ NextCall

Spec == Init /\ [][Next]_vars

\* ------------------------------------------------------------------------
\* nse_scatter_matrix (src/private/fnft__nse_scatter_matrix.c, lines 32-83),
\* called directly
\* ------------------------------------------------------------------------

\* the arguments of a direct call; nomem: whether an allocation can fail
ScatterCalls ==
    [D : 0 .. MaxD, q_null : BOOLEAN, amp : {1, 2}, eps_t : {R(0), R(1)}, kappa : {1, -1, 0},
     K : {0, MaxK}, lambda_null : BOOLEAN, result_null : BOOLEAN,
     discretization : {"BO", "ES4"}, nomem : BOOLEAN]

\* q[k] of a direct call
ScatterQ(a, k) == C(a.amp, k)

\* the state pieces of the pipeline while the caller uses nse_scatter_matrix
InitScatter ==
    /\ pc = "caller"
    /\ args = NoCall
    /\ opts = NoCall.opts
    /\ default_opts = DefaultOpts
    /\ live = {}
    /\ allocated = {}
    /\ q_effective = [ptr |-> Buf("NULL", "main"), val |-> <<>>]
    /\ r_effective = [ptr |-> Buf("NULL", "main"), val |-> <<>>]
    /\ Dsub = 0
    /\ first_last_index = <<0, 0>>
    /\ contspec = [full |-> <<>>, sub |-> <<>>]
    /\ bound_states = [full |-> <<>>, sub |-> <<>>]
    /\ K_ptr = [full |-> 0, sub |-> 0]
    /\ normconsts_or_residues = [full |-> <<>>, sub |-> <<>>, reserve |-> <<>>]
    /\ reserve_ptr = "NULL"
    /\ sub_ptrs = {}
    /\ ds_type_opt = "0"
    /\ bs_loc_opt = "0"
    /\ ret_code = "SUCCESS"
    /\ call = NoBase
    /\ base = NoLocals
    /\ hist = NoHist
    /\ deref = {}
    /\ \E a \in ScatterCalls :
         scatter = [pc |-> "check_inputs", a |-> a, ret_code |-> "SUCCESS", i |-> 0,
                    r_ptr |-> "NULL", r |-> <<>>, akns_discretization |-> "0",
                    null_written |-> FALSE, akns_called |-> FALSE]
    /\ resampler = NoResampler

pipelineVars == <<pc, args, opts, default_opts, live, allocated, q_effective, r_effective,
                  Dsub, first_last_index, contspec, bound_states, K_ptr,
                  normconsts_or_residues, reserve_ptr, sub_ptrs, ds_type_opt, bs_loc_opt,
                  ret_code, call, base, hist, deref>>

\* lines 45-58: the input checks
ScatterInputsValid(a) ==
    /\ a.D # 0
    /\ ~a.q_null
    /\ RLess(R(0), a.eps_t)
    /\ Abs(a.kappa) = 1
    /\ a.K > 0
    /\ ~a.lambda_null
    /\ ~a.result_null

\* lines 45-67: the input checks and the switch on the discretization
ScatterCheckInputs ==
    /\ scatter.pc = "check_inputs"
    /\ IF ScatterInputsValid(scatter.a) /\ scatter.a.discretization = "BO"
       THEN scatter' = [scatter EXCEPT !.pc = "alloc", !.akns_discretization = "BO"]
       ELSE scatter' = [scatter EXCEPT !.pc = "done", !.ret_code = "E_INVALID_ARGUMENT"]
    /\ UNCHANGED <<pipelineVars, resampler>>

\* lines 69-72: r = malloc(D*sizeof(COMPLEX)); a NULL result sets ret_code
\* and execution goes on with the loops of lines 74-79
ScatterAlloc ==
    /\ scatter.pc = "alloc"
    /\ \E ok \in (IF scatter.a.nomem THEN BOOLEAN ELSE {TRUE}), g \in Garbage :
         scatter' = IF ok
                    THEN [scatter EXCEPT !.pc = "fill", !.r_ptr = "heap",
                                         !.r = Arr(scatter.a.D, g)]
                    ELSE [scatter EXCEPT !.pc = "fill", !.ret_code = "E_NOMEM"]
    /\ UNCHANGED <<pipelineVars, resampler>>

\* lines 74-79, one iteration: r[i] = -CONJ(q[i]) for kappa = 1, CONJ(q[i])
\* otherwise.  Through a null r the store is undefined: the call dies, or the
\* store is lost and the loop goes on.
ScatterFill ==
    /\ scatter.pc = "fill"
    /\ \E next \in {IF scatter.i + 1 < scatter.a.D THEN "fill" ELSE "akns"} :
         IF scatter.r_ptr = "NULL"
         THEN \E dies \in BOOLEAN :
                scatter' = IF dies
                           THEN [scatter EXCEPT !.pc = "crashed", !.null_written = TRUE]
                           ELSE [scatter EXCEPT !.pc = next, !.i = @ + 1,
                                                !.null_written = TRUE]
         ELSE scatter' = [scatter EXCEPT
                            !.pc = next, !.i = @ + 1,
                            !.r[scatter.i] = IF scatter.a.kappa = 1
                                             THEN CSub(C(0, 0), CConj(ScatterQ(scatter.a, scatter.i)))
                                             ELSE CConj(ScatterQ(scatter.a, scatter.i))]
    /\ UNCHANGED <<pipelineVars, resampler>>

\* akns_scatter_matrix: rejects a null array, can run out of memory
akns_scatter_matrix(r_ptr, ok) ==
    IF r_ptr = "NULL" THEN "E_INVALID_ARGUMENT" ELSE IF ok THEN "SUCCESS" ELSE "E_NOMEM"

\* lines 81-82: ret_code = akns_scatter_matrix(...); return ret_code
ScatterAkns ==
    /\ scatter.pc = "akns"
    /\ \E ok \in (IF scatter.a.nomem THEN BOOLEAN ELSE {TRUE}) :
         scatter' = [scatter EXCEPT !.pc = "done", !.akns_called = TRUE,
                                    !.ret_code = akns_scatter_matrix(scatter.r_ptr, ok)]
    /\ UNCHANGED <<pipelineVars, resampler>>

NextScatter ==
    \/ ScatterCheckInputs
    \/ ScatterAlloc
    \/ ScatterFill
    \/ ScatterAkns

SpecScatter == InitScatter /\ [][NextScatter]_vars

\* ------------------------------------------------------------------------
\* signal_effective_from_signal (lines 692-936), called directly
\* ------------------------------------------------------------------------
MaxSamples == 9

\* the arguments of a direct call.  null: which pointer argument is NULL, if
\* any; Dsub_req: the desired sample count in *Dsub_ptr; nomem: whether an
\* allocation can fail
ResamplerCalls ==
    [D : 1 .. MaxSamples, Dsub_req : 0 .. MaxSamples + 1, eps_t : {R(0), R(1)},
     kappa : {1, -1, 0}, discretization : {"BO", "ES4", "UNKNOWN"},
     null : {"none", "q", "Dsub_ptr", "q_effective_ptr", "r_effective_ptr", "first_last_index"},
     nomem : BOOLEAN]

\* q[0..D-1] of a direct call
ResamplerQ(a) == [k \in 0 .. a.D - 1 |-> C(1, k)]

\* the pipeline at rest
PipelineIdle ==
    /\ pc = "caller"
    /\ args = NoCall
    /\ opts = NoCall.opts
    /\ default_opts = DefaultOpts
    /\ live = {}
    /\ allocated = {}
    /\ q_effective = [ptr |-> Buf("NULL", "main"), val |-> <<>>]
    /\ r_effective = [ptr |-> Buf("NULL", "main"), val |-> <<>>]
    /\ Dsub = 0
    /\ first_last_index = <<0, 0>>
    /\ contspec = [full |-> <<>>, sub |-> <<>>]
    /\ bound_states = [full |-> <<>>, sub |-> <<>>]
    /\ K_ptr = [full |-> 0, sub |-> 0]
    /\ normconsts_or_residues = [full |-> <<>>, sub |-> <<>>, reserve |-> <<>>]
    /\ reserve_ptr = "NULL"
    /\ sub_ptrs = {}
    /\ ds_type_opt = "0"
    /\ bs_loc_opt = "0"
    /\ ret_code = "SUCCESS"
    /\ call = NoBase
    /\ base = NoLocals
    /\ hist = NoHist
    /\ deref = {}
    /\ scatter = NoScatter

\* the locals at entry (lines 698-706); q_read, eff_read and eff_written are
\* the indices of q and of q_effective used so far, out is what the caller's
\* output pointers have received
InitResampler ==
    /\ PipelineIdle
    /\ \E a \in ResamplerCalls :
         resampler = [pc |-> "check_inputs", a |-> a, ret_code |-> "SUCCESS",
                      Dsub |-> 0, nskip_per_step |-> 0, D_effective |-> 0,
                      bufs |-> {}, q_effective |-> <<>>, r_effective |-> <<>>,
                      q_read |-> {}, eff_read |-> {}, eff_written |-> {},
                      out |-> [assigned |-> FALSE, Dsub |-> 0, first_last_index |-> <<0, 0>>]]

\* lines 709-724: the input checks
ResamplerInputsValid(a) ==
    /\ a.D >= 2
    /\ a.null = "none"
    /\ RLess(R(0), a.eps_t)
    /\ Abs(a.kappa) = 1

ResamplerCheckInputs ==
    /\ resampler.pc = "check_inputs"
    /\ resampler' = IF ResamplerInputsValid(resampler.a)
                    THEN [resampler EXCEPT !.pc = "sizes"]
                    ELSE [resampler EXCEPT !.pc = "returned", !.ret_code = "E_INVALID_ARGUMENT"]
    /\ UNCHANGED <<pipelineVars, scatter>>

\* lines 728-742: the stride, the actual Dsub and D_effective = Dsub*D_scale;
\* a discretization that has no D_scale leaves through release_mem
ResamplerSizes ==
    /\ resampler.pc = "sizes"
    /\ resampler' =
         LET a == resampler.a
             sized == [resampler EXCEPT
                          !.nskip_per_step = nskip_per_step(a.D, a.Dsub_req),
                          !.Dsub = ActualDsub(a.D, a.Dsub_req)]
         IN  IF nse_discretization_D_scale(a.discretization) = 0
             THEN [sized EXCEPT !.pc = "returned", !.ret_code = "E_INVALID_ARGUMENT"]
             ELSE [sized EXCEPT !.pc = "alloc",
                                !.D_effective = ActualDsub(a.D, a.Dsub_req)
                                                * nse_discretization_D_scale(a.discretization)]
    /\ UNCHANGED <<pipelineVars, scatter>>

\* lines 743-748: the two mallocs; when one fails the routine leaves through
\* release_mem, which frees neither of them
ResamplerAlloc ==
    /\ resampler.pc = "alloc"
    /\ \E okq, okr \in (IF resampler.a.nomem THEN BOOLEAN ELSE {TRUE}), g \in Garbage :
         resampler' =
           IF okq /\ okr
           THEN [resampler EXCEPT !.pc = "fill",
                                  !.bufs = {"q_effective", "r_effective"},
                                  !.q_effective = Arr(resampler.D_effective, g),
                                  !.r_effective = Arr(resampler.D_effective, g)]
           ELSE [resampler EXCEPT !.pc = "returned", !.ret_code = "E_NOMEM",
                                  !.bufs = (IF okq THEN {"q_effective"} ELSE {})
                                           \cup (IF okr THEN {"r_effective"} ELSE {})]
    /\ UNCHANGED <<pipelineVars, scatter>>

\* the indices of q that the sampling loop reads: i = 0, nskip, 2*nskip, ...
\* once per step of isub (lines 757-762 and 888-891)
SampledIndices(steps, nskip) == {m * nskip : m \in 0 .. steps - 1}

\* lines 888-891: the value nodes isub = 0, 3, 6, ... < D_effective
ValueNodes(D_eff) == {isub \in 0 .. D_eff - 1 : isub % 3 = 0}

\* line 902: the nodes isub = 3, 6, ... < D_effective-3 of the inner loop
InnerNodes(D_eff) == {isub \in 3 .. D_eff - 4 : isub % 3 = 0}

\* the indices of q_effective written by the ES4/TES4 branch (lines 889,
\* 895-898, 903-904); D_effective is unsigned, so a negative difference here
\* stands for the index that has wrapped around
ES4Written(D_eff) ==
    ValueNodes(D_eff) \cup {1, 2, D_eff - 2, D_eff - 1}
    \cup {isub + 1 : isub \in InnerNodes(D_eff)} \cup {isub + 2 : isub \in InnerNodes(D_eff)}

\* the indices of q_effective read by the ES4/TES4 branch (lines 895-898,
\* 903-904, 908)
ES4Read(D_eff) ==
    {0, 3, 6, D_eff - 3, D_eff - 6, D_eff - 9}
    \cup {isub + 3 : isub \in InnerNodes(D_eff)} \cup InnerNodes(D_eff)
    \cup {isub - 3 : isub \in InnerNodes(D_eff)}
    \cup (0 .. D_eff - 1)

\* lines 752-918: the switch on the discretization
ResamplerFill ==
    /\ resampler.pc = "fill"
    /\ \E g \in Garbage :
         resampler' =
           LET a == resampler.a
               qa == ResamplerQ(a)
               done == ResampleDone(resampler.Dsub, resampler.nskip_per_step, a.kappa,
                                    IF a.discretization = "BO"
                                    THEN EffectiveBO(a.D, qa, resampler.Dsub,
                                                     resampler.nskip_per_step, g)
                                    ELSE EffectiveES4(a.D, qa, resampler.Dsub,
                                                      resampler.nskip_per_step, a.eps_t, g))
           IN  [resampler EXCEPT
                   !.pc = "outputs",
                   !.q_effective = done.q_effective,
                   !.r_effective = done.r_effective,
                   !.q_read = SampledIndices(resampler.Dsub, resampler.nskip_per_step),
                   !.eff_read = IF a.discretization = "BO" THEN {}
                                ELSE ES4Read(resampler.D_effective),
                   !.eff_written = IF a.discretization = "BO"
                                   THEN 0 .. resampler.D_effective - 1
                                   ELSE ES4Written(resampler.D_effective)]
    /\ UNCHANGED <<pipelineVars, scatter>>

\* lines 921-935: the outputs, then release_mem and the return
ResamplerOutputs ==
    /\ resampler.pc = "outputs"
    /\ resampler' =
         [resampler EXCEPT
             !.pc = "returned",
             !.out = [assigned |-> TRUE, Dsub |-> resampler.Dsub,
                      first_last_index |->
                          ResampleDone(resampler.Dsub, resampler.nskip_per_step,
                                       resampler.a.kappa, <<>>).first_last_index]]
    /\ UNCHANGED <<pipelineVars, scatter>>

NextResampler ==
    \/ ResamplerCheckInputs
    \/ ResamplerSizes
    \/ ResamplerAlloc
    \/ ResamplerFill
    \/ ResamplerOutputs

SpecResampler == InitResampler /\ [][NextResampler]_vars

\* ------------------------------------------------------------------------
\* Properties
\* ------------------------------------------------------------------------
\* fnft_nsev_slow has returned
Returned == pc = "done"

\* the positions inside fnft_nsev_slow_base
InBase == pc \in {"base_check", "base_contspec", "base_localize", "newton", "base_filter",
                  "base_merge", "base_normconsts", "base_release", "base_return"}

\* a successful call with Richardson extrapolation that asked for bound states
RichardsonDiscreteDone ==
    /\ Returned
    /\ ret_code = "SUCCESS"
    /\ ~args.opts_null
    /\ args.opts.richardson_extrapolation_flag = 1
    /\ args.kappa = 1
    /\ ~args.bound_states_null
    /\ ~args.normconsts_null
    /\ hist.full.K > 0

\* the sub-run eigenvalue the code matches to full-run eigenvalue i
\* (the count of the sub-run when there is none)
LocOf(i) == MatchLoc(hist.full.bound_states[i], hist.sub.bound_states, hist.sub.K, 0,
                     hist.sub.K, RMul(eps_t, eps_t))

\* the residue of full-run eigenvalue i recombined from the buffers F of the
\* full run and S of the sub-run: F[i] / ((s*a'_full(i) - a'_sub(loc))/(s - 1))
RecombinedResidue(F, S, i, K, loc, K_sub) ==
    CDiv(F[i], Extrapolate(CDiv(F[i], F[K + i]), CDiv(S[loc], S[K_sub + loc])))

\* C1: every InvalidArgument result is detected before anything is executed:
\* when fnft_nsev_slow returns InvalidArgument no continuous-spectrum slot has
\* been written, no bound-state candidate has been modified and no
\* norming-constant/residue slot has been written.
C1_InvalidArgumentBeforeAnyWrite ==
    (Returned /\ ret_code = "E_INVALID_ARGUMENT")
        => /\ hist.contspec_written = {}
           /\ hist.normconsts_written = {}
           /\ bound_states.full = args.guesses

\* C2: at return from fnft_nsev_slow, on every path, no buffer allocated
\* during the call is still live.
C2_NoBufferLiveAtReturn == Returned => live = {}

\* a Newton update has just been applied to candidate base.i, it started from
\* an admissible value, and the updated value is outside the admissible region
NewtonLeftRegion ==
    /\ pc = "newton"
    /\ base'.ret_code = "SUCCESS"
    /\ hist'.newton.left_region
    /\ ~OutOfRegion(hist'.newton.before, base.re_bound_val, base.im_bound_val)

\* C3 (as stated): when a Newton update moves a candidate outside the
\* admissible region, iteration for that candidate stops and the slot holds
\* the last admissible value, the one before that update.
C3_KeepsLastAdmissible ==
    [][NewtonLeftRegion =>
          /\ bound_states'[run][base.i] = hist'.newton.before
          /\ base'.i = base.i + 1]_vars

\* C3 (amended): when a Newton update moves a candidate outside the
\* admissible region, iteration for that candidate stops and the slot holds
\* the updated, out-of-region value.
C3_StopsWithUpdatedValue ==
    [][NewtonLeftRegion =>
          /\ bound_states'[run][base.i] = hist'.newton.updated
          /\ base'.i = base.i + 1
          /\ base'.iter = 0]_vars

\* C3 witness: an update from an admissible value has left the region, and the
\* loop has moved on with the out-of-region value in the slot
C3_Witness ==
    /\ hist.newton.run = run
    /\ InBase
    /\ hist.newton.left_region
    /\ ~OutOfRegion(hist.newton.before, base.re_bound_val, base.im_bound_val)
    /\ base.i = hist.newton.i + 1
    /\ bound_states[run][hist.newton.i] = hist.newton.updated

\* C4: a candidate whose initial guess lies outside the admissible region
\* before iteration begins is returned by the Newton solver unmodified: no
\* Newton update is applied to it.
C4_OutsideGuessUnmodified ==
    [][(/\ pc = "newton"
        /\ base.iter = 0
        /\ OutOfRegion(bound_states[run][base.i], base.re_bound_val, base.im_bound_val))
          => bound_states'[run][base.i] = bound_states[run][base.i]]_vars

\* C5: when fnft_nsev_slow_base succeeds with K retained bound states and kind
\* "both", slot i holds the norming constant of retained state i and slot K+i
\* its residue, for every input candidate count K_in >= K.
C5_BothLayoutForRetained ==
    (/\ pc = "base_return"
     /\ base.ret_code = "SUCCESS"
     /\ Opts.discspec_type = "BOTH"
     /\ ~call.normconsts_null
     /\ K_ptr[run] > 0)
        => \A i \in 0 .. K_ptr[run] - 1 :
             /\ normconsts_or_residues[run][i]
                  = b_of(args.sig, args.D * D_scale, call.D, bound_states[run][i])
             /\ normconsts_or_residues[run][K_ptr[run] + i]
                  = CDiv(b_of(args.sig, args.D * D_scale, call.D, bound_states[run][i]),
                         aprime_of(args.sig, args.D * D_scale, call.D, bound_states[run][i]))

\* C6: with Richardson extrapolation and residues requested, on success the
\* caller's slots 0..K-1 hold, for each retained bound state i, the residue
\* recombined from the full run's norming constant and a' value (extrapolated
\* if matched, the full run's residue otherwise).
C6_ResiduesFromFullRun ==
    (RichardsonDiscreteDone /\ args.opts.discspec_type = "RESIDUES")
        => \A i \in 0 .. hist.full.K - 1 :
             normconsts_or_residues.full[i]
               = IF LocOf(i) < hist.sub.K
                 THEN RecombinedResidue(hist.full.normconsts_or_residues,
                                        hist.sub.normconsts_or_residues,
                                        i, hist.full.K, LocOf(i), hist.sub.K)
                 ELSE hist.full.normconsts_or_residues[hist.full.K + i]

\* C7: in the Richardson bound-state step, for every matched full-run
\* eigenvalue i, also when several are matched to the same sub-run eigenvalue
\* j, the returned residue is norming_constant(i) divided by
\* (s*a'_full(i) - a'_sub(j))/(s - 1), a'_sub(j) being the sub-run norming
\* constant j divided by the sub-run residue j.
C7_ResidueFromSubRunDerivative ==
    (RichardsonDiscreteDone /\ args.opts.discspec_type = "BOTH" /\ hist.sub.K > 0)
        => \A i \in 0 .. hist.full.K - 1 :
             LocOf(i) < hist.sub.K
               => normconsts_or_residues.full[hist.full.K + i]
                    = RecombinedResidue(hist.full.normconsts_or_residues,
                                        hist.sub.normconsts_or_residues,
                                        i, hist.full.K, LocOf(i), hist.sub.K)

\* C8 (as stated): the Richardson sub-run is always executed with Newton
\* localization and with the "both" discrete-spectrum kind.
C8_SubRunNewtonAndBoth ==
    (InBase /\ run = "sub")
        => /\ Opts.bound_state_localization = "NEWTON"
           /\ Opts.discspec_type = "BOTH"

\* C8 (amended): the Richardson sub-run is always executed with Newton
\* localization; its discrete-spectrum kind is "both" when the caller asked
\* for residues or for both, and the caller's kind otherwise.
C8_SubRunNewtonAndInternalKind ==
    (InBase /\ run = "sub")
        => /\ Opts.bound_state_localization = "NEWTON"
           /\ Opts.discspec_type = IF ds_type_opt = "RESIDUES" THEN "BOTH" ELSE ds_type_opt
           /\ ds_type_opt = args.opts.discspec_type

\* C8 witness: a sub-run computes norming constants only, as the caller asked
C8_Witness ==
    /\ run = "sub"
    /\ pc = "base_normconsts"
    /\ base.K > 0
    /\ args.opts.discspec_type = "NORMING_CONSTANTS"
    /\ Opts.discspec_type = "NORMING_CONSTANTS"
    /\ Opts.bound_state_localization = "NEWTON"

\* the sub-run eigenvalues whose relative distance to full-run eigenvalue i
\* is below eps_t
NearSub(i) ==
    {j \in 0 .. hist.sub.K - 1 :
       RLess(RelErr2(hist.full.bound_states[i], hist.sub.bound_states[j]), RMul(eps_t, eps_t))}

\* the nearest of them, the lowest index winning ties
NearestSub(i) ==
    CHOOSE j \in NearSub(i) :
      \A k \in NearSub(i) :
        /\ ~RLess(RelErr2(hist.full.bound_states[i], hist.sub.bound_states[k]),
                  RelErr2(hist.full.bound_states[i], hist.sub.bound_states[j]))
        /\ (RelErr2(hist.full.bound_states[i], hist.sub.bound_states[k])
              = RelErr2(hist.full.bound_states[i], hist.sub.bound_states[j]) => j <= k)

\* the norming constant/residue of eigenvalue i is at its full-run value
FullRunDiscspecKept(i) ==
    CASE args.opts.discspec_type = "NORMING_CONSTANTS" ->
           normconsts_or_residues.full[i] = hist.full.normconsts_or_residues[i]
      [] args.opts.discspec_type = "RESIDUES" ->
           normconsts_or_residues.full[i] = hist.full.normconsts_or_residues[hist.full.K + i]
      [] OTHER ->
           /\ normconsts_or_residues.full[i] = hist.full.normconsts_or_residues[i]
           /\ normconsts_or_residues.full[hist.full.K + i]
                = hist.full.normconsts_or_residues[hist.full.K + i]

\* C9: in the Richardson bound-state step each full-run eigenvalue i is
\* matched to the sub-run eigenvalue j of least relative distance (lowest j on
\* ties), provided that distance is below eps_t; a matched eigenvalue becomes
\* (s*lambda_i - mu_j)/(s - 1); an unmatched eigenvalue and its norming
\* constant/residue are left at their full-run values.
C9_MatchedExtrapolatedUnmatchedKept ==
    (RichardsonDiscreteDone /\ hist.sub.returned /\ hist.sub.K > 0)
        => \A i \in 0 .. hist.full.K - 1 :
             IF NearSub(i) # {}
             THEN bound_states.full[i]
                    = CDivR(CSub(CScale(scl_num, hist.full.bound_states[i]),
                                 hist.sub.bound_states[NearestSub(i)]),
                            RSub(scl_num, R(1)))
             ELSE /\ bound_states.full[i] = hist.full.bound_states[i]
                  /\ FullRunDiscspecKept(i)

\* number of output blocks of the continuous spectrum
NBlocks ==
    CASE Opts.contspec_type = "REFLECTION_COEFFICIENT" -> 1
      [] Opts.contspec_type = "AB" -> 2
      [] OTHER -> 3

\* |XI[0] + i*dxi| < 0.9*pi/(2*eps_t_sub)
BelowBand(i) ==
    RLess(RAbs(RAdd(args.XI[1],
                    RMul(R(i), RDiv(RSub(args.XI[2], args.XI[1]), R(args.M - 1))))),
          RDiv(RMul(<<9, 10>>, <<355, 113>>), RMul(R(2), eps_t_sub)))

\* (s*full - sub)/(s - 1) with s = (D/Dsub')^order
RichardsonValue(full, sub, s) == CDivR(CSub(CScale(s, full), sub), RSub(s, R(1)))

\* C10: in the Richardson continuous-spectrum step, for every grid index
\* i < M and every requested output block: if |XI[0] + i*dxi| is below
\* 0.9*pi/(2*eps_t_sub) the output becomes (s*value_full - value_sub)/(s - 1)
\* with s = (D/Dsub')^order, otherwise the slot is left unchanged.
C10_ContspecRichardson ==
    [][(pc = "richardson_contspec" /\ ~args.contspec_null /\ args.M > 0)
          => \A i \in 0 .. args.M - 1 : \A blk \in 0 .. NBlocks - 1 :
               contspec'.full[i + blk * args.M]
                 = IF BelowBand(i)
                   THEN RichardsonValue(
                          contspec.full[i + blk * args.M], contspec.sub[i + blk * args.M],
                          RPow(RDiv(R(args.D), R(Dsub)),
                               nse_discretization_method_order(Opts.discretization)))
                   ELSE contspec.full[i + blk * args.M]]_vars

\* C10 witness: the step has run on a grid with a point inside the band,
\* which was extrapolated to a finite value, and a point outside it
C10_Witness ==
    /\ pc = "richardson_bound_states"
    /\ ~args.contspec_null
    /\ args.M = 2
    /\ BelowBand(0)
    /\ ~BelowBand(1)
    /\ Opts.contspec_type = "BOTH"
    /\ CFinite(contspec.full[0])
    /\ contspec.full[0] # contspec.sub[0]

\* a'(lambda) at the candidate the running fnft_nsev_slow_base holds in slot i
APrimeAt(i) == aprime_of(args.sig, args.D * D_scale, call.D, bound_states[run][i])

\* the grid points at which S11 is exactly zero
S11Zeros ==
    {i \in 0 .. args.M - 1 :
       CIsZero(S11_of(args.sig, D_given, XiGrid(args.M, args.XI)[i]))}

\* the slots i < K of the discrete spectrum at which a' is exactly zero
APrimeZeros(K) == {i \in 0 .. K - 1 : CIsZero(APrimeAt(i))}

\* the least element of a nonempty set of indices
Least(S) == CHOOSE i \in S : \A j \in S : i <= j

\* the step ends in DivideByZero, or in OutOfMemory before any divisor is met
DivByZeroOrNoMem == base'.ret_code \in {"E_DIV_BY_ZERO", "E_NOMEM"}

\* C11: DivideByZero is returned, and the division is not performed, when an
\* exactly-zero divisor is met in a Newton update (a' = 0), in the residue
\* computation (a' = 0 with residues or both requested) or in the reflection
\* coefficient (S11 = 0 with reflection coefficient or both requested); with
\* norming constants only, or a/b only, these stages return no DivideByZero;
\* and fnft_nsev_slow returns the DivideByZero of its run.
C11_DivideByZeroOnZeroDivisor ==
    [][/\ (pc = "newton" /\ CIsZero(APrimeAt(base.i)))
            => /\ DivByZeroOrNoMem
               /\ bound_states' = bound_states
       /\ (pc = "base_normconsts" /\ ~call.normconsts_null /\ base.K > 0
             /\ Opts.discspec_type \in {"RESIDUES", "BOTH"} /\ APrimeZeros(base.K) # {})
            => /\ DivByZeroOrNoMem
               /\ base'.ret_code = "E_DIV_BY_ZERO"
                    => normconsts_or_residues'[run][
                           (IF Opts.discspec_type = "BOTH" THEN K_ptr[run] ELSE 0)
                             + Least(APrimeZeros(K_ptr[run]))]
                         = b_of(args.sig, args.D * D_scale, call.D,
                                bound_states[run][Least(APrimeZeros(K_ptr[run]))])
       /\ (pc = "base_normconsts" /\ Opts.discspec_type = "NORMING_CONSTANTS")
            => base'.ret_code # "E_DIV_BY_ZERO"
       /\ (pc = "base_contspec" /\ ~call.contspec_null /\ args.M > 0
             /\ Opts.contspec_type \in {"REFLECTION_COEFFICIENT", "BOTH"} /\ S11Zeros # {})
            => /\ DivByZeroOrNoMem
               /\ contspec'[run][Least(S11Zeros)] = contspec[run][Least(S11Zeros)]
       /\ (pc = "base_contspec" /\ Opts.contspec_type = "AB")
            => base'.ret_code # "E_DIV_BY_ZERO"
       /\ (pc = "base_return" /\ base.ret_code = "E_DIV_BY_ZERO")
            => ret_code' = "E_DIV_BY_ZERO"]_vars

\* C11 witness: the residue computation has met a' = 0 at a retained bound
\* state and the routine has returned DivideByZero without refining
C11_Witness ==
    /\ pc = "base_release"
    /\ base.ret_code = "E_DIV_BY_ZERO"
    /\ Opts.niter = 0
    /\ call.contspec_null
    /\ Opts.discspec_type \in {"RESIDUES", "BOTH"}
    /\ base.K > 0
    /\ APrimeZeros(base.K) # {}

\* the update magnitude of the last Newton update is zero (at or below the
\* tolerance)
LastErrorZero == hist'.newton.before = hist'.newton.updated

\* the loop of the current candidate has to end after this update
NewtonMustStop ==
    \/ hist'.newton.left_region
    \/ LastErrorZero
    \/ base.iter + 1 >= Opts.niter

\* C12: the Newton solver applies at most niter updates to a candidate and
\* none when niter = 0; the loop of a candidate ends as soon as the update is
\* within the tolerance, the candidate leaves the admissible region or the
\* cap is reached; refining K candidates takes at most K*niter scattering
\* evaluations.
C12_NewtonIterationCap ==
    [][/\ (pc = "newton")
            => /\ Opts.niter > 0
               /\ base.iter < Opts.niter
               /\ base.i < base.K
               /\ hist'.evals[run] = hist.evals[run] + 1
               /\ hist'.evals[run] <= base.i * Opts.niter + base.iter + 1
               /\ hist'.evals[run] <= hist[run].K_in * Opts.niter
               /\ base'.ret_code = "SUCCESS"
                    => IF NewtonMustStop
                       THEN base'.i = base.i + 1 /\ base'.iter = 0
                       ELSE base'.i = base.i /\ base'.iter = base.iter + 1 /\ pc' = "newton"
       /\ (pc \notin {"newton", "done"})
            => hist'.evals = hist.evals /\ (pc' = "newton" => base'.iter = 0)
       /\ (pc = "base_localize" /\ Opts.niter = 0)
            => pc' # "newton" /\ bound_states' = bound_states]_vars

\* C12 witness: with cap 2, every candidate of the run has had its two
\* updates, and the last loop was ended by the cap
C12_Witness ==
    /\ pc = "base_filter"
    /\ Opts.niter = 2
    /\ hist[run].K_in > 0
    /\ hist.evals[run] = 2 * hist[run].K_in
    /\ ~hist.newton.left_region
    /\ hist.newton.before # hist.newton.updated

\* a(lam)/a'(lam) for the signal sig at Dn samples
NewtonErrorAt(lam, sig, Dn) ==
    CDiv(a_of(sig, args.D * D_scale, Dn, lam), aprime_of(sig, args.D * D_scale, Dn, lam))

\* the value the Newton iteration gives a candidate that starts at lam and may
\* take n more updates (n >= 1), computed from that candidate alone: the
\* signal, the number of samples and the bounds are those of the running call
RECURSIVE RefinedAlone(_, _, _, _, _, _)
RefinedAlone(lam, n, sig, Dn, rb, ib) ==
    IF \/ n = 1
       \/ CIsZero(NewtonErrorAt(lam, sig, Dn))
       \/ OutOfRegion(CSub(lam, NewtonErrorAt(lam, sig, Dn)), rb, ib)
    THEN CSub(lam, NewtonErrorAt(lam, sig, Dn))
    ELSE RefinedAlone(CSub(lam, NewtonErrorAt(lam, sig, Dn)), n - 1, sig, Dn, rb, ib)

\* the initial guess of candidate j in the running call: the caller's guess
\* in the full run, the full run's result in the sub-run
InitialGuess(j) == IF run = "full" THEN args.guesses[j] ELSE hist.full.bound_states[j]

\* C13: candidates are refined independently: while the Newton solver runs
\* and after it has succeeded, every candidate already processed holds the
\* value determined by its own initial guess, the signal and the options
\* alone, and every candidate not yet processed still holds its initial guess.
C13_CandidatesIndependent ==
    (pc \in {"newton", "base_filter"} /\ base.ret_code = "SUCCESS" /\ Opts.niter > 0)
        => \A j \in 0 .. base.K - 1 :
             /\ j < base.i
                  => bound_states[run][j]
                       = RefinedAlone(InitialGuess(j), Opts.niter, args.sig, call.D,
                                      base.re_bound_val, base.im_bound_val)
             /\ j > base.i => bound_states[run][j] = InitialGuess(j)

\* C13 witness: two candidates with different guesses have both been refined
\* to values other than their guesses
C13_Witness ==
    /\ pc = "base_filter"
    /\ base.ret_code = "SUCCESS"
    /\ Opts.niter = 2
    /\ base.K = 2
    /\ base.i = 2
    /\ InitialGuess(0) # InitialGuess(1)
    /\ bound_states[run][0] # InitialGuess(0)
    /\ bound_states[run][1] # InitialGuess(1)

\* b(lambda_i) for the candidate the running fnft_nsev_slow_base holds in slot i
BAt(i) == b_of(args.sig, args.D * D_scale, call.D, bound_states[run][i])

\* C14: after compute_normconsts_or_residues has succeeded for K bound
\* states, for every i < K: with residues, slot i holds b(lambda_i)/a'(lambda_i);
\* with both, slot i holds b(lambda_i) and slot K+i holds b(lambda_i)/a'(lambda_i),
\* so that slot[K+i]*a'(lambda_i) = slot[i]; with norming constants, slot i
\* holds b(lambda_i).
C14_NormconstsResiduesLayout ==
    [][(/\ pc = "base_normconsts"
        /\ ~call.normconsts_null
        /\ K_ptr[run] > 0
        /\ base'.ret_code = "SUCCESS")
          => \A i \in 0 .. K_ptr[run] - 1 :
               CASE Opts.discspec_type = "RESIDUES" ->
                      normconsts_or_residues'[run][i] = CDiv(BAt(i), APrimeAt(i))
                 [] Opts.discspec_type = "BOTH" ->
                      /\ normconsts_or_residues'[run][i] = BAt(i)
                      /\ normconsts_or_residues'[run][K_ptr[run] + i] = CDiv(BAt(i), APrimeAt(i))
                      /\ CMul(normconsts_or_residues'[run][K_ptr[run] + i], APrimeAt(i))
                           = normconsts_or_residues'[run][i]
                 [] Opts.discspec_type = "NORMING_CONSTANTS" ->
                      normconsts_or_residues'[run][i] = BAt(i)
                 [] OTHER -> FALSE]_vars

\* C14 witness: the routine has succeeded for two bound states with kind
\* "both", and a residue differs from its norming constant
C14_Witness ==
    /\ pc = "base_release"
    /\ base.ret_code = "SUCCESS"
    /\ ~call.normconsts_null
    /\ Opts.discspec_type = "BOTH"
    /\ hist[run].K_in = 2
    /\ base.K = 2
    /\ normconsts_or_residues[run][0] = BAt(0)
    /\ normconsts_or_residues[run][3] = CDiv(BAt(1), APrimeAt(1))
    /\ normconsts_or_residues[run][3] # normconsts_or_residues[run][1]

\* C15: the process-wide default options are never modified: in every state
\* of every sequence of calls (null or non-null options, with or without
\* Richardson extrapolation, succeeding or failing) default_opts holds its
\* initial field values, fnft_nsev_slow_default_opts returns them, and a call
\* with opts = NULL works with them.
C15_DefaultOptsNeverModified ==
    /\ default_opts = DefaultOpts
    /\ fnft_nsev_slow_default_opts = DefaultOpts
    /\ args.opts_null => Opts = DefaultOpts

\* C15 witness: a call with opts = NULL has run the whole pipeline and
\* returned success, with the defaults as they were
C15_Witness ==
    /\ pc = "done"
    /\ ret_code = "SUCCESS"
    /\ args.opts_null
    /\ hist.full.returned
    /\ Opts.niter = 10
    /\ default_opts = DefaultOpts

\* the malloc of line 69 has returned NULL in the running nse_scatter_matrix
ScatterAllocFailed ==
    /\ scatter.pc \in {"fill", "akns", "done", "crashed"}
    /\ scatter.akns_discretization = "BO"
    /\ scatter.r_ptr = "NULL"

\* C16: when nse_scatter_matrix cannot allocate its co-field buffer it
\* returns E_NOMEM at once: the null buffer is never read or written,
\* akns_scatter_matrix is not invoked, and the status returned is E_NOMEM,
\* not that of a later step.
C16_NoMemReturnsImmediately ==
    ScatterAllocFailed
      => /\ scatter.pc = "done"
         /\ scatter.ret_code = "E_NOMEM"
         /\ ~scatter.null_written
         /\ ~scatter.akns_called

\* the boxes of lines 478-481 and 487-507 for the running fnft_nsev_slow_base
HalfPlaneBox == <<RNaN, RNaN, R(0), RNaN>>
EnergyBox ==
    <<RNeg(re_bound(base_eps_t)), re_bound(base_eps_t), R(0),
      im_bound(D_given, IF D_scale = 1 THEN q_effective.val
                        ELSE QTmp(D_given, q_effective.val, D_scale), call.T)>>

\* filtering the K first values of vals with the box changes neither the
\* values nor the count, and each of them lies inside the box
FilterFixed(K, vals, box) ==
    /\ misc_filter(K, vals, box) = [K |-> K, vals |-> vals]
    /\ \A i \in 0 .. K - 1 : InBox(vals[i], box)

\* C17: the filter is idempotent: filtering the result of a filter pass of
\* fnft_nsev_slow_base again with the same box leaves the values and the
\* count unchanged, and every candidate that survives the pass lies inside
\* the box used (both boxes for the full policy); without filtering nothing
\* is changed.
C17_FilterIdempotent ==
    [][(pc = "base_filter" /\ pc' = "base_merge")
         => /\ Opts.bound_state_filtering = "NONE"
                 => bound_states'[run] = bound_states[run] /\ base'.K = base.K
            /\ Opts.bound_state_filtering # "NONE"
                 => FilterFixed(base'.K, bound_states'[run], HalfPlaneBox)
            /\ Opts.bound_state_filtering = "FULL"
                 => FilterFixed(base'.K, bound_states'[run], EnergyBox)
            /\ base'.K <= base.K]_vars

\* C17 witness: a full filter pass over two candidates has kept the first,
\* which lies inside the box, and dropped the second, which lies outside
C17_Witness ==
    /\ pc = "base_merge"
    /\ Opts.bound_state_filtering = "FULL"
    /\ hist[run].K_in = 2
    /\ base.K = 1
    /\ bound_states[run][0] # bound_states[run][1]
    /\ InBox(bound_states[run][0], EnergyBox)
    /\ ~InBox(bound_states[run][1], EnergyBox) \/ ~InBox(bound_states[run][1], HalfPlaneBox)

ValidCall ==
    /\ args.D >= 2
    /\ RLess(args.T[1], args.T[2])
    /\ args.contspec_null \/ (RLess(args.XI[1], args.XI[2]) /\ args.M # 1)
    /\ Abs(args.kappa) = 1
    /\ Opts.bound_state_localization = "NEWTON"
    /\ Opts.discspec_type \in {"NORMING_CONSTANTS", "RESIDUES", "BOTH"}
    /\ Opts.contspec_type \in {"REFLECTION_COEFFICIENT", "AB", "BOTH"}
    /\ nse_discretization_D_scale(Opts.discretization) # 0
    /\ ~args.nomem
    /\ args.null = {}

\* C19: the status of fnft_nsev_slow does not depend on the sample count
\* being a power of two: a valid call with any D >= 2 (so D, D+1 and D-1
\* alike) in which no allocation fails is rejected by no stage of the
\* pipeline, runs to its return, and returns SUCCESS unless an exactly-zero
\* divisor was met (which is what E_DIV_BY_ZERO reports).
C19_StatusIndependentOfSampleCount ==
    ValidCall
      => /\ ret_code \notin {"E_INVALID_ARGUMENT", "E_NOMEM"}
         /\ base.ret_code \notin {"E_INVALID_ARGUMENT", "E_NOMEM"}
         /\ pc # "crashed"
         /\ (pc = "done" /\ ret_code # "E_DIV_BY_ZERO") => ret_code = "SUCCESS"

\* C20: the sub-sample count the Richardson sub-run asks of
\* signal_effective_from_signal is ceil(D/2) for every D >= 2: D/2 for even
\* D and (D+1)/2, not (D-1)/2, for odd D.
C20_SubRunRequestsCeilHalf ==
    hist.Dsub_req > 0
      => /\ args.D >= 2
         /\ hist.Dsub_req = (args.D + 1) \div 2
         /\ args.D % 2 = 1 => hist.Dsub_req # (args.D - 1) \div 2

\* n is a/b rounded to the nearest integer, halves away from zero (a, b > 0)
IsRounded(n, a, b) == 2 * n * b - b <= 2 * a /\ 2 * a < 2 * n * b + b

\* the direct call has passed the input checks and fixed its sizes
ResamplerSized == resampler.pc \in {"alloc", "fill", "outputs", "returned"}
                  /\ resampler.Dsub # 0

\* the direct call has returned SUCCESS
ResamplerSucceeded == resampler.pc = "returned" /\ resampler.ret_code = "SUCCESS"

\* C21: for every D >= 2 and every requested Dsub the resampler clamps the
\* request to [2, D], uses the stride nskip = round(D/Dsub) >= 1 and reports
\* the achieved Dsub' = round(D/nskip); always 2 <= Dsub' <= D, and a request
\* of D gives nskip = 1 and Dsub' = D.
C21_ResamplerSizes ==
    ResamplerSized =>
      LET D == resampler.a.D
          req == resampler.a.Dsub_req
          clamped == IF req < 2 THEN 2 ELSE IF req > D THEN D ELSE req
      IN  /\ D >= 2
          /\ resampler.nskip_per_step >= 1
          /\ IsRounded(resampler.nskip_per_step, D, clamped)
          /\ IsRounded(resampler.Dsub, D, resampler.nskip_per_step)
          /\ 2 <= resampler.Dsub /\ resampler.Dsub <= D
          /\ req = D => resampler.nskip_per_step = 1 /\ resampler.Dsub = D
          /\ ResamplerSucceeded => /\ resampler.out.assigned
                                   /\ resampler.out.Dsub = resampler.Dsub

\* a request of 4 out of 9 samples has returned 5 samples at stride 2
C21_Witness ==
    /\ ResamplerSucceeded
    /\ resampler.a.D = 9
    /\ resampler.a.Dsub_req = 4
    /\ resampler.nskip_per_step = 2
    /\ resampler.out.Dsub = 5

\* the direct call has run the sampling loop of the BO scheme
ResamplerFilledBO == resampler.pc \in {"outputs", "returned"}
                     /\ resampler.ret_code = "SUCCESS"
                     /\ resampler.a.discretization = "BO"

\* C22: for the BO scheme q_eff[k] = q[k*nskip] and
\* r_eff[k] = -kappa*conj(q[k*nskip]) for every k < Dsub', and every index
\* of q that is read, the reported last index (Dsub'-1)*nskip included, lies
\* in 0..D-1, for all D >= 2 and all requested Dsub.
C22_DirectSchemeSamples ==
    ResamplerFilledBO =>
      LET a == resampler.a
          n == resampler.nskip_per_step
      IN  /\ DOMAIN resampler.q_effective = 0 .. resampler.Dsub - 1
          /\ DOMAIN resampler.r_effective = 0 .. resampler.Dsub - 1
          /\ \A k \in 0 .. resampler.Dsub - 1 :
               /\ k * n \in 0 .. a.D - 1
               /\ resampler.q_effective[k] = C(1, k * n)
               /\ resampler.r_effective[k] = C(-a.kappa, a.kappa * k * n)
          /\ resampler.q_read \subseteq 0 .. a.D - 1
          /\ (resampler.Dsub - 1) * n \in resampler.q_read
          /\ ResamplerSucceeded =>
               resampler.out.first_last_index = <<0, (resampler.Dsub - 1) * n>>

\* 5 of 9 samples have been taken at stride 2 with kappa = +1; the last one
\* is q[8]
C22_Witness ==
    /\ ResamplerSucceeded
    /\ resampler.a.discretization = "BO"
    /\ resampler.a.D = 9
    /\ resampler.a.kappa = 1
    /\ resampler.nskip_per_step = 2
    /\ resampler.q_effective[4] = C(1, 8)
    /\ resampler.r_effective[4] = C(-1, 8)
    /\ resampler.out.first_last_index = <<0, 8>>

\* C23: the Richardson sub-run is executed over the same original time
\* window as the full run: the window recomputed from the returned index
\* range, [T0 + first*eps_t, T0 + last*eps_t], equals [T0, T1] (first = 0
\* and last = D-1) for every D >= 2.
C23_SubRunKeepsWindow ==
    (InBase /\ call.run = "sub") =>
      /\ first_last_index = <<0, args.D - 1>>
      /\ call.T = args.T

\* C23 as the code has it: the sub-run starts at T0 and ends at the last
\* sample kept, T0 + (Dsub'-1)*nskip*eps_t, which is at most T1 and less than
\* one stride short of it; nskip and Dsub' are those of a request of D div 2.
C23_SubRunWindowAmended ==
    (InBase /\ call.run = "sub") =>
      LET D == args.D
          step == RDiv(RSub(args.T[2], args.T[1]), R(D - 1))
          req == IF D \div 2 < 2 THEN 2 ELSE D \div 2
          last == first_last_index[2]
      IN  /\ first_last_index[1] = 0
          /\ \E n \in 1 .. D : /\ IsRounded(n, D, req)
                               /\ IsRounded(Dsub, D, n)
                               /\ last = (Dsub - 1) * n
                               /\ D - 1 - last < n
          /\ last <= D - 1
          /\ call.T[1] = args.T[1]
          /\ call.T[2] = RAdd(args.T[1], RMul(R(last), step))
          /\ ~RLess(args.T[2], call.T[2])

\* the sub-run of a 4-sample signal on [0, 3] has been entered on [0, 2]
C23_Witness ==
    /\ InBase /\ call.run = "sub"
    /\ args.D = 4
    /\ args.T = <<R(0), R(3)>>
    /\ call.T = <<R(0), R(2)>>

\* the region the filter of the full run enforces on the caller's signal
\* (lines 476-507 for D_scale = 1)
AdmissibleAtReturn(z) ==
    IF Opts.bound_state_filtering = "FULL"
    THEN InBox(z, FullBox(re_bound(eps_t), im_bound(args.D, q, args.T)))
    ELSE InBox(z, HalfPlaneBox)

\* a successful return that hands back bound states of a filtered run
FilteredReturn ==
    /\ Returned
    /\ ret_code = "SUCCESS"
    /\ ~args.bound_states_null
    /\ Opts.bound_state_filtering # "NONE"
    /\ Opts.discretization = "BO"

\* C24: on every successful return with a filtering policy other than none,
\* each of the K returned bound states lies in the admissible region of the
\* filter (imaginary part >= 0; for the full policy also within the real
\* band and below the energy bound), also when Richardson extrapolation is
\* enabled and the eigenvalues returned are the extrapolated ones.
C24_ReturnedBoundStatesAdmissible ==
    FilteredReturn =>
      \A i \in 0 .. K_ptr.full - 1 : AdmissibleAtReturn(bound_states.full[i])

\* C25: for every call with a caller-supplied options record, the record's
\* fields at return (discspec_type and bound_state_localization in
\* particular) equal their values at entry, on success and on every error
\* return.
C25_CallerOptsRestored ==
    (Returned /\ ~args.opts_null) => opts = args.opts

\* the Richardson loop over the bound states is about to run (line 282)
RichardsonLoopRuns ==
    /\ pc = "richardson_bound_states"
    /\ args.kappa = 1 /\ ~args.bound_states_null /\ K_ptr.full # 0 /\ K_ptr.sub # 0

\* the buffer the loop reads the full run's norming constants and residues from
ReserveRead == IF reserve_ptr = "caller" THEN normconsts_or_residues.full
               ELSE normconsts_or_residues.reserve

\* C26: in every execution that reaches the Richardson combination step no
\* division has an exactly-zero divisor: s-1 is nonzero (the achieved Dsub'
\* is strictly less than D for every D >= 2), M-1 is nonzero in the grid
\* step, |lambda_i| is nonzero for every full-run eigenvalue, and the
\* residues used as divisors when converting back to a' are nonzero.
C26_RichardsonDivisorsNonzero ==
    /\ pc \in {"richardson_contspec", "richardson_bound_states"} =>
         /\ Dsub < args.D
         /\ RPow(RDiv(R(args.D), R(Dsub)),
                 nse_discretization_method_order(Opts.discretization)) # R(1)
         /\ args.M # 1
    /\ RichardsonLoopRuns =>
         /\ \A i \in 0 .. K_ptr.full - 1 : ~CIsZero(bound_states.full[i])
         /\ (ds_type_opt \in {"RESIDUES", "BOTH"} /\ ~args.normconsts_null) =>
              /\ \A i \in 0 .. K_ptr.full - 1 : ~CIsZero(ReserveRead[K_ptr.full + i])
              /\ \A j \in 0 .. K_ptr.sub - 1 :
                   ~CIsZero(normconsts_or_residues.sub[K_ptr.sub + j])

\* the discrete-spectrum kind the caller asked for (the options at entry)
RequestedKind == IF args.opts_null THEN DefaultOpts.discspec_type ELSE args.opts.discspec_type

\* C27: fnft_nsev_slow writes to the caller's normconsts_or_residues buffer
\* only slots 0..K_in-1 when the caller requested norming constants or
\* residues, and only slots 0..2*K_in-1 when the caller requested both, for
\* every option setting including Richardson extrapolation with residues.
C27_NormconstsWritesInBounds ==
    (pc \notin {"caller"} /\ RequestedKind \in {"NORMING_CONSTANTS", "RESIDUES", "BOTH"}) =>
      hist.normconsts_written \subseteq
        (IF RequestedKind = "BOTH" THEN 0 .. 2 * args.Kin - 1 ELSE 0 .. args.Kin - 1)

\* the call has passed the input checks of lines 143-161
PassedValidation == pc \notin {"check_inputs", "caller"}
                    /\ ~(pc = "done" /\ ret_code = "E_INVALID_ARGUMENT" /\ ~hist.full.entered)

\* C28: in a call that passes input validation XI is read only when a
\* continuous spectrum is requested (contspec non-null) and *K_ptr is read
\* only when bound states are requested (bound_states non-null), for every
\* option setting including Richardson extrapolation; a valid call with
\* XI = NULL or K_ptr = NULL never dereferences that pointer.
C28_PointersReadOnlyWhenRequested ==
    PassedValidation =>
      /\ "XI" \in deref => ~args.contspec_null
      /\ "K_ptr" \in deref => ~args.bound_states_null
      /\ deref \cap args.null = {}

\* the direct call has run the ES4/TES4 branch
ResamplerFilledES4 == resampler.pc \in {"outputs", "returned"}
                      /\ resampler.ret_code = "SUCCESS"
                      /\ resampler.a.discretization = "ES4"

\* C29: for the derivative-based schemes every index of the effective signal
\* that the resampler reads or writes lies in 0 .. 3*Dsub'-1, for every
\* D >= 2 and every requested Dsub, Dsub' = 2 and Dsub' = 3 included.
C29_DerivativeSchemeIndicesInBounds ==
    ResamplerFilledES4 =>
      /\ resampler.D_effective = 3 * resampler.Dsub
      /\ resampler.eff_written \subseteq 0 .. 3 * resampler.Dsub - 1
      /\ resampler.eff_read \subseteq 0 .. 3 * resampler.Dsub - 1

====
